---- MODULE Spec2Model ----
(***************************************************************************)
(* Verification model of Layr-Labs/multichain-go.                          *)
(*                                                                         *)
(*  - pkg/distribution: the Distribution (TableIndices / tableData maps)   *)
(*  - pkg/operatorTableCalculator: paginated fetch of the active           *)
(*    generation reservations and CalculateStakeTableRoot                  *)
(*  - the go-merkletree calls made by the calculator and the transport     *)
(*    (NewTree, Root, GenerateProofWithIndex) with a symbolic hash         *)
(*                                                                         *)
(* Spec      the calculator: one CalculateStakeTableRoot call against a    *)
(*           registry that holds totalCount groups and may fail one call   *)
(* SpecDist  a Distribution under any sequence of its methods              *)
(***************************************************************************)
EXTENDS Integers, Sequences, FiniteSets, TLC

(***************************************************************************)
(* Bounds of the model                                                     *)
(***************************************************************************)
\* group counts 0..MaxSmall are explored one by one
MaxSmall == 3
\* group counts k*pageSize-1, k*pageSize, k*pageSize+1 for k in 1..MaxPages
MaxPages == 2
\* a payload computation may fail for one of the first MaxFaultPos groups
\* (or for the last group)
MaxFaultPos == 2
\* number of distinct payload byte strings the registry computes
PayloadKinds == 3
\* SpecDist: number of groups, longest list, number of SetOperatorSets calls
NumGroups == 2
MaxListLen == 2
MaxSetCalls == 2

(***************************************************************************)
(* Program constants                                                       *)
(***************************************************************************)
pageSize == 50

(***************************************************************************)
(* Values                                                                  *)
(***************************************************************************)
\* a Go slice, keeping nil apart from the empty slice
NilSlice == [isNil |-> TRUE, items |-> <<>>]
EmptySlice == [isNil |-> FALSE, items |-> <<>>]

\* append(s, page...): a nil slice stays nil only when nothing is appended
AppendAll(s, page) ==
    [isNil |-> s.isNil /\ Len(page) = 0, items |-> s.items \o page]

\* a nil []byte
NilBytes == <<>>

\* errors: msg is the text of the fmt.Errorf, start/end the range it names,
\* cause the error of the failed call, wraps the text of the error it wraps
Err(msg, start, end, cause, wraps) ==
    [msg |-> msg, start |-> start, end |-> end, cause |-> cause, wraps |-> wraps]
NoErr == Err("nil", -1, -1, "nil", "nil")
ErrRegistry == "registry call failed"

OperatorSet(id, avs) == [Id |-> id, Avs |-> avs]
ZeroOperatorSet == OperatorSet(0, "0x00")

\* f with key k set to v (a Go map assignment)
MapPut(f, k, v) == [x \in (DOMAIN f) \cup {k} |-> IF x = k THEN v ELSE f[x]]

EmptyMap == [x \in {} |-> 0]

(***************************************************************************)
(* pkg/distribution                                                        *)
(***************************************************************************)
NewDistribution == [isNil |-> FALSE, TableIndices |-> EmptyMap, tableData |-> EmptyMap]

\* the nil *Distribution
NilDistribution == [isNil |-> TRUE, TableIndices |-> EmptyMap, tableData |-> EmptyMap]

\* the position (1-based) of the last occurrence of opset in operatorSets
LastPosition(operatorSets, opset) ==
    CHOOSE p \in 1..Len(operatorSets) :
        /\ operatorSets[p] = opset
        /\ \A q \in (p + 1)..Len(operatorSets) : operatorSets[q] # opset

SeqRange(s) == {s[p] : p \in 1..Len(s)}

\* faulty variant of SetOperatorSets: indices continue after the entries already there
SetOperatorSetsAppending(dst, operatorSets) ==
    [dst EXCEPT !.TableIndices =
        [g \in (DOMAIN dst.TableIndices) \cup SeqRange(operatorSets) |->
            IF g \in SeqRange(operatorSets)
            THEN Cardinality(DOMAIN dst.TableIndices) + LastPosition(operatorSets, g) - 1
            ELSE dst.TableIndices[g]]]

\* for i, opset := range operatorSets { d.TableIndices[opset] = uint64(i) }:
\* entries of other groups stay, and the last write of a group wins
SetOperatorSets(dst, operatorSets) ==
    [dst EXCEPT !.TableIndices =
        [g \in (DOMAIN dst.TableIndices) \cup SeqRange(operatorSets) |->
            IF g \in SeqRange(operatorSets)
            THEN LastPosition(operatorSets, g) - 1
            ELSE dst.TableIndices[g]]]

NewDistributionWithOperatorSets(operatorSets) ==
    SetOperatorSets(NewDistribution, operatorSets)

\* (index, ok)
GetTableIndex(dst, opset) ==
    IF opset \in DOMAIN dst.TableIndices
    THEN [index |-> dst.TableIndices[opset], ok |-> TRUE]
    ELSE [index |-> 0, ok |-> FALSE]

\* faulty variant of SetTableData: no existence check
SetTableDataUnchecked(dst, opset, data) ==
    [dist |-> [dst EXCEPT !.tableData = MapPut(dst.tableData, opset, data)], err |-> FALSE]

\* the Distribution after the call and whether an error was returned
SetTableData(dst, opset, data) ==
    IF opset \notin DOMAIN dst.TableIndices
    THEN [dist |-> dst, err |-> TRUE]
    ELSE [dist |-> [dst EXCEPT !.tableData = MapPut(dst.tableData, opset, data)], err |-> FALSE]

\* (data, ok)
GetTableData(dst, opset) ==
    IF opset \in DOMAIN dst.tableData
    THEN [data |-> dst.tableData[opset], ok |-> TRUE]
    ELSE [data |-> NilBytes, ok |-> FALSE]

\* sets[index] = opset panics when index >= len(sets)
OrderedPanics(dst) ==
    \E g \in DOMAIN dst.TableIndices : dst.TableIndices[g] >= Cardinality(DOMAIN dst.TableIndices)

\* the slices GetOrderedOperatorSets can return: the map is iterated in an
\* unspecified order, so a position written twice keeps either writer, and a
\* position never written keeps the zero value
OrderedResults(dst) ==
    LET n == Cardinality(DOMAIN dst.TableIndices)
        At(p) == {g \in DOMAIN dst.TableIndices : dst.TableIndices[g] = p - 1}
    IN  {s \in [1..n -> (DOMAIN dst.TableIndices) \cup {ZeroOperatorSet}] :
            \A p \in 1..n : IF At(p) = {} THEN s[p] = ZeroOperatorSet ELSE s[p] \in At(p)}

\* the outcomes of GetOrderedOperatorSets
GetOrderedOperatorSets(dst) ==
    IF OrderedPanics(dst)
    THEN {[panicked |-> TRUE, sets |-> <<>>]}
    ELSE {[panicked |-> FALSE, sets |-> s] : s \in OrderedResults(dst)}

\* distribution.EncodeOperatorTableLeaf: the leaf preimage of a payload is the
\* payload behind a one-byte salt
LeafSalt == 142
EncodeOperatorTableLeaf(tableBytes) == <<LeafSalt>> \o tableBytes

(***************************************************************************)
(* go-merkletree, as the calculator and the transport call it, over a      *)
(* symbolic keccak256                                                      *)
(***************************************************************************)
\* 32 zero bytes: the zero root, and the padding node of a tree
ZeroHash == [t |-> "zero"]
HashLeaf(data) == [t |-> "leaf", d |-> data]
HashPair(l, r) == [t |-> "node", l |-> l, r |-> r]

RECURSIVE Pow2AtLeast(_, _)
Pow2AtLeast(n, p) == IF p >= n THEN p ELSE Pow2AtLeast(n, 2 * p)

\* branchesLen = 2^ceil(log2(len(data)))
BranchesLen(data) == Pow2AtLeast(Len(data), 1)

RECURSIVE NodeAt(_, _, _)
NodeAt(data, bl, k) ==
    IF k >= bl
    THEN IF k - bl < Len(data) THEN HashLeaf(data[k - bl + 1]) ELSE ZeroHash
    ELSE HashPair(NodeAt(data, bl, 2 * k), NodeAt(data, bl, 2 * k + 1))

NilTree == [isNil |-> TRUE, Data |-> <<>>, Nodes |-> <<>>]

\* merkletree.NewTree(WithData(data), WithHashType(keccak256)); Nodes[0] is unused
NewTree(data) ==
    IF Len(data) = 0
    THEN [tree |-> NilTree, err |-> TRUE]
    ELSE LET bl == BranchesLen(data)
         IN  [tree |-> [isNil |-> FALSE, Data |-> data,
                        Nodes |-> [k \in 1..(2 * bl - 1) |-> NodeAt(data, bl, k)]],
              err |-> FALSE]

Root(tree) == tree.Nodes[1]

Sibling(k) == IF k % 2 = 0 THEN k + 1 ELSE k - 1

RECURSIVE ProofLoop(_, _, _)
ProofLoop(nodes, k, hashes) ==
    IF k > 1 THEN ProofLoop(nodes, k \div 2, Append(hashes, nodes[Sibling(k)])) ELSE hashes

\* tree.GenerateProofWithIndex(index, 0)
GenerateProofWithIndex(tree, index) ==
    ProofLoop(tree.Nodes, index + (Len(tree.Nodes) + 1) \div 2, <<>>)

RECURSIVE RecombineLoop(_, _, _, _)
RecombineLoop(h, hashes, index, j) ==
    IF j > Len(hashes) THEN h
    ELSE RecombineLoop(IF index % 2 = 0 THEN HashPair(h, hashes[j]) ELSE HashPair(hashes[j], h),
                       hashes, index \div 2, j + 1)

\* the root a verifier recomputes from a leaf preimage, its index and the proof
RecombineProof(leaf, hashes, index) == RecombineLoop(HashLeaf(leaf), hashes, index, 1)

(***************************************************************************)
(* State                                                                   *)
(***************************************************************************)
VARIABLES
    \* the registry at the reference block, and the call it fails
    totalCount, order, fault,
    \* CalculateStakeTableRoot / fetchActiveGenerationReservationsPaginated
    pc, startIndex, allReservations, rangeCalls, pagesReturned, fetched,
    dist, opsetTableRoots, i, payloadCalls, result,
    \* SpecDist: a Distribution, the list last supplied, the number of lists
    \* supplied, and the last call with what it returned
    d, lastList, setCalls, lastCall,
    \* SpecTransport: the transport call and its arguments, the supported
    \* chains, the position in the chain loop, the calls made so far, the
    \* failed step, what the call returned, and the destination chains
    trOp, root, operatorSet, ignoreChainIds, chainIds, tpc, chainPos, calls,
    failedAt, trResult, confirmed, pending,
    \* SpecSigner: the KMS answer and the signer's result
    kms, signed,
    \* SpecChains: the ChainManager's map, and for every AddChain call its
    \* chain id, its position and what it returned; the last GetChainForId
    Chains, addCfg, addPc, addRet, stored, lastGet,
    \* SpecCommand: the command run, its skip-avs-tables flag, the groups of
    \* the calculated Distribution, the position in the command and in the
    \* group loop, the calls made so far and the command's result
    command, skipAvsTables, cmdOpsets, cpc, groupPos, cmdCalls, cmdResult,
    \* SpecFlatten: the sibling hashes of a proof and the flattened buffer
    proofHashes, flattened,
    \* SpecSteps: one transport call, call by call: its arguments, the
    \* supported chains, whether the caller's context is cancelled, the next
    \* call, the position in the chain loop, the public key, the locals of
    \* the current loop iteration, the calls made so far and the result
    stOp, referenceTimestamp, referenceBlockHeight, stOperatorSet, stChainIds, ctxDone,
    spc, stPos, apkG2, cur, stLog, stResult

calcVars == <<totalCount, order, fault, pc, startIndex, allReservations, rangeCalls,
              pagesReturned, fetched, dist, opsetTableRoots, i, payloadCalls, result>>
distVars == <<d, lastList, setCalls, lastCall>>
trVars == <<trOp, root, operatorSet, ignoreChainIds, chainIds, tpc, chainPos, calls,
            failedAt, trResult, confirmed, pending>>
kmsVars == <<kms, signed>>
cmVars == <<Chains, addCfg, addPc, addRet, stored, lastGet>>
cmdVars == <<command, skipAvsTables, cmdOpsets, cpc, groupPos, cmdCalls, cmdResult>>
flVars == <<proofHashes, flattened>>
stVars == <<stOp, referenceTimestamp, referenceBlockHeight, stOperatorSet, stChainIds, ctxDone,
            spc, stPos, apkG2, cur, stLog, stResult>>
moreVars == <<cmVars, cmdVars, flVars, stVars>>
\* what the actions of one specification leave alone
othersChains == <<calcVars, distVars, trVars, kmsVars, cmdVars, flVars, stVars>>
othersCommand == <<calcVars, distVars, trVars, kmsVars, cmVars, flVars, stVars>>
othersFlatten == <<calcVars, distVars, trVars, kmsVars, cmVars, cmdVars, stVars>>
othersSteps == <<calcVars, distVars, trVars, kmsVars, cmVars, cmdVars, flVars>>
extVars == <<trVars, kmsVars, moreVars>>
vars == <<totalCount, order, fault, pc, startIndex, allReservations, rangeCalls,
          pagesReturned, fetched, dist, opsetTableRoots, i, payloadCalls, result,
          d, lastList, setCalls, lastCall,
          trOp, root, operatorSet, ignoreChainIds, chainIds, tpc, chainPos, calls,
          failedAt, trResult, confirmed, pending, kms, signed,
          Chains, addCfg, addPc, addRet, stored, lastGet,
          command, skipAvsTables, cmdOpsets, cpc, groupPos, cmdCalls, cmdResult,
          proofHashes, flattened,
          stOp, referenceTimestamp, referenceBlockHeight, stOperatorSet, stChainIds, ctxDone,
          spc, stPos, apkG2, cur, stLog, stResult>>

\* no transport call
TransportIdle ==
    /\ trOp = "none"
    /\ root = ZeroHash
    /\ operatorSet = ZeroOperatorSet
    /\ ignoreChainIds = {}
    /\ chainIds = <<>>
    /\ tpc = "idle"
    /\ chainPos = 0
    /\ calls = <<>>
    /\ failedAt = [chain |-> 0, step |-> "none", cause |-> "none"]
    /\ trResult = [returned |-> FALSE, err |-> [msg |-> "nil", chainId |-> 0]]
    /\ confirmed = {}
    /\ pending = {}

\* no signing request
SignerIdle ==
    /\ kms = [r |-> 0, s |-> 0, recover |-> <<>>, addressOk |-> TRUE]
    /\ signed = [returned |-> FALSE, err |-> "nil", signature |-> <<>>, tried |-> <<>>]

\* no ChainManager
ManagerIdle ==
    /\ Chains = <<>>
    /\ addCfg = <<>>
    /\ addPc = <<>>
    /\ addRet = <<>>
    /\ stored = <<>>
    /\ lastGet = [chainId |-> 0, chain |-> 0, err |-> "none"]

\* no command
CommandIdle ==
    /\ command = "none"
    /\ skipAvsTables = FALSE
    /\ cmdOpsets = <<>>
    /\ cpc = "idle"
    /\ groupPos = 0
    /\ cmdCalls = <<>>
    /\ cmdResult = "running"

\* no proof being flattened
FlattenIdle ==
    /\ proofHashes = <<>>
    /\ flattened = [returned |-> FALSE, bytes |-> <<>>]

\* no step-wise transport call
StepsIdle ==
    /\ stOp = "none"
    /\ referenceTimestamp = 0
    /\ referenceBlockHeight = 0
    /\ stOperatorSet = ZeroOperatorSet
    /\ stChainIds = <<>>
    /\ ctxDone = FALSE
    /\ spc = "idle"
    /\ stPos = 0
    /\ apkG2 = "nil"
    /\ cur = <<>>
    /\ stLog = <<>>
    /\ stResult = [returned |-> FALSE, err |-> [msg |-> "nil", chainId |-> 0]]

\* the specifications further down are not running
MoreIdle == ManagerIdle /\ CommandIdle /\ FlattenIdle /\ StepsIdle

(***************************************************************************)
(* The registry (ICrossChainRegistry), pinned at the reference block       *)
(***************************************************************************)
RegistryAvs == "0x1234"

\* the k-th (1-based) active generation reservation of a registry with n groups
Reservation(n, ord, k) ==
    OperatorSet(IF ord = "asc" THEN k ELSE n + 1 - k, RegistryAvs)

\* GetActiveGenerationReservationsByRange(start, end)
ReservationsByRange(n, ord, start, end) ==
    LET last == IF end > n THEN n ELSE end
    IN  [k \in 1..(IF last > start THEN last - start ELSE 0) |-> Reservation(n, ord, start + k)]

\* CalculateOperatorTableBytes(opset)
OperatorTableBytes(opset) == <<(opset.Id % PayloadKinds) + 1>>

NumPages(n) == (n + pageSize - 1) \div pageSize

CountValues ==
    (0..MaxSmall) \cup {k * pageSize + dlt : k \in 1..MaxPages, dlt \in {-1, 0, 1}}

FaultPositions(n) == {p \in 0..(n - 1) : p < MaxFaultPos \/ p = n - 1}

Faults(n) ==
    {[kind |-> "none", at |-> 0], [kind |-> "count", at |-> 0]}
    \cup {[kind |-> "range", at |-> k] : k \in 0..(NumPages(n) - 1)}
    \cup {[kind |-> "payload", at |-> p] : p \in FaultPositions(n)}

(***************************************************************************)
(* pkg/operatorTableCalculator                                             *)
(***************************************************************************)
NotFetched == [returned |-> FALSE, res |-> NilSlice, err |-> NoErr]
NotReturned ==
    [returned |-> FALSE, root |-> ZeroHash, tree |-> NilTree, dist |-> NilDistribution,
     err |-> NoErr]

\* return zeroRoot, nil, nil, err
ErrorResult(err) ==
    [returned |-> TRUE, root |-> ZeroHash, tree |-> NilTree, dist |-> NilDistribution,
     err |-> err]

\* faulty variant of NoReservationsResult: no active group is reported as an error
NoReservationsAsError(newDist) ==
    ErrorResult(Err("no active generation reservations", -1, -1, "nil", "nil"))

\* return zeroRoot, nil, dist, nil
NoReservationsResult(newDist) ==
    [returned |-> TRUE, root |-> ZeroHash, tree |-> NilTree, dist |-> newDist, err |-> NoErr]

CountErr ==
    Err("failed to fetch generation reservation count", -1, -1, ErrRegistry, "nil")

RangeErr(start, end) ==
    Err("failed to fetch active generation reservations for range", start, end,
        ErrRegistry, "nil")

\* fmt.Errorf("failed to fetch active generation reservations: %w", err)
WrapFetchErr(e) ==
    Err("failed to fetch active generation reservations", e.start, e.end, e.cause, e.msg)

\* faulty variant of EndIndex: the last page is not clamped to the count
EndIndexUnclamped(start, total) == start + pageSize

EndIndex(start, total) ==
    IF start + pageSize > total THEN total ELSE start + pageSize

\* what fetchActiveGenerationReservationsPaginated returns when the count fetch fails
CountFailure == [returned |-> TRUE, res |-> NilSlice, err |-> CountErr]

\* faulty variant of RangeFailure: the pages fetched so far are returned
RangeFailurePartial(all, start, end) ==
    [returned |-> TRUE, res |-> all, err |-> RangeErr(start, end)]

\* what fetchActiveGenerationReservationsPaginated returns when a range fetch fails
RangeFailure(all, start, end) ==
    [returned |-> TRUE, res |-> NilSlice, err |-> RangeErr(start, end)]

\* util.Map(opsetsWithCalculators, ...): registry OperatorSet to distribution OperatorSet
DistributionOpsets(opsets) ==
    [k \in 1..Len(opsets) |-> OperatorSet(opsets[k].Id, opsets[k].Avs)]

NilLeaves(n) == [k \in 1..n |-> NilBytes]

\* the record of a call on the Distribution d: the Distribution before it,
\* its argument and what it returned
Call(op, before, opset, err, panicked, sets, repeated) ==
    [op |-> op, before |-> before, opset |-> opset, err |-> err, panicked |-> panicked,
     sets |-> sets, repeated |-> repeated]
NoCall == Call("none", NilDistribution, ZeroOperatorSet, FALSE, FALSE, <<>>, FALSE)

Init ==
    /\ totalCount \in CountValues
    /\ order \in {"asc", "desc"}
    /\ fault \in Faults(totalCount)
    /\ pc = "start"
    /\ startIndex = 0
    /\ allReservations = NilSlice
    /\ rangeCalls = <<>>
    /\ pagesReturned = <<>>
    /\ fetched = NotFetched
    /\ dist = NilDistribution
    /\ opsetTableRoots = <<>>
    /\ i = 0
    /\ payloadCalls = <<>>
    /\ result = NotReturned
    /\ d = NilDistribution
    /\ lastList = <<>>
    /\ setCalls = 0
    /\ lastCall = NoCall
    /\ TransportIdle
    /\ SignerIdle
    /\ MoreIdle

\* CalculateStakeTableRoot after fetchActiveGenerationReservationsPaginated
\* returned the reservations res without error: up to the first payload call
AfterFetch(res) ==
    IF Len(res.items) = 0
    THEN /\ result' = NoReservationsResult(NewDistribution)
         /\ pc' = "done"
         /\ UNCHANGED <<dist, opsetTableRoots, i>>
    ELSE /\ dist' = SetOperatorSets(NewDistribution, DistributionOpsets(res.items))
         /\ opsetTableRoots' = NilLeaves(Len(res.items))
         /\ i' = 0
         /\ pc' = "payloads"
         /\ UNCHANGED result

\* GetActiveGenerationReservationCount, and what follows up to the next registry call
FetchCount ==
    /\ pc = "start"
    /\ IF fault.kind = "count"
       THEN /\ fetched' = CountFailure
            /\ IF fetched'.err # NoErr
               THEN /\ result' = ErrorResult(WrapFetchErr(fetched'.err))
                    /\ pc' = "done"
                    /\ UNCHANGED <<dist, opsetTableRoots, i>>
               ELSE AfterFetch(fetched'.res)
            /\ UNCHANGED <<startIndex, allReservations>>
       ELSE IF totalCount = 0
            THEN /\ fetched' = [returned |-> TRUE, res |-> EmptySlice, err |-> NoErr]
                 /\ AfterFetch(EmptySlice)
                 /\ UNCHANGED <<startIndex, allReservations>>
            ELSE /\ pc' = "paging"
                 /\ startIndex' = 0
                 /\ allReservations' = NilSlice
                 /\ UNCHANGED <<fetched, dist, opsetTableRoots, i, result>>
    /\ UNCHANGED <<totalCount, order, fault, rangeCalls, pagesReturned, payloadCalls>>
    /\ UNCHANGED <<distVars, extVars>>

\* one iteration of the paging loop: GetActiveGenerationReservationsByRange,
\* and what follows up to the next registry call
FetchRange ==
    /\ pc = "paging"
    /\ LET endIndex == EndIndex(startIndex, totalCount)
           failing == fault.kind = "range" /\ fault.at = startIndex \div pageSize
           page == ReservationsByRange(totalCount, order, startIndex, endIndex)
       IN  /\ rangeCalls' = Append(rangeCalls, <<startIndex, endIndex>>)
           /\ IF failing
              THEN /\ fetched' = RangeFailure(allReservations, startIndex, endIndex)
                   /\ result' = ErrorResult(WrapFetchErr(fetched'.err))
                   /\ pc' = "done"
                   /\ UNCHANGED <<startIndex, allReservations, pagesReturned, dist,
                                  opsetTableRoots, i>>
              ELSE /\ pagesReturned' = Append(pagesReturned, page)
                   /\ allReservations' = AppendAll(allReservations, page)
                   /\ startIndex' = startIndex + pageSize
                   /\ IF startIndex' < totalCount
                      THEN UNCHANGED <<pc, fetched, dist, opsetTableRoots, i, result>>
                      ELSE /\ fetched' = [returned |-> TRUE, res |-> allReservations',
                                          err |-> NoErr]
                           /\ AfterFetch(allReservations')
    /\ UNCHANGED <<totalCount, order, fault, payloadCalls>>
    /\ UNCHANGED <<distVars, extVars>>

\* one iteration of the payload loop: CalculateOperatorTableBytes for the
\* i-th group, and, after the last one, the tree and the return
CalcTableBytes ==
    /\ pc = "payloads"
    /\ LET opsets == DistributionOpsets(fetched.res.items)
           opset == opsets[i + 1]
           failing == fault.kind = "payload" /\ fault.at = i
           tableBytes == OperatorTableBytes(fetched.res.items[i + 1])
           set == SetTableData(dist, opset, tableBytes)
       IN  /\ payloadCalls' = Append(payloadCalls, fetched.res.items[i + 1])
           /\ IF failing
              THEN \* logged, then continue
                   UNCHANGED <<dist, opsetTableRoots>>
              ELSE /\ opsetTableRoots' =
                        [opsetTableRoots EXCEPT ![i + 1] = EncodeOperatorTableLeaf(tableBytes)]
                   /\ dist' = set.dist
           /\ IF ~failing /\ set.err
              THEN /\ result' = ErrorResult(Err("failed to set table data for opset", -1, -1,
                                                "nil", "nil"))
                   /\ pc' = "done"
                   /\ UNCHANGED i
              ELSE /\ i' = i + 1
                   /\ IF i' < Len(opsets)
                      THEN UNCHANGED <<pc, result>>
                      ELSE LET t == NewTree(opsetTableRoots')
                           IN  /\ pc' = "done"
                               /\ result' =
                                    IF t.err
                                    THEN ErrorResult(Err("calculator: failed to create merkle tree",
                                                         -1, -1, "nil", "nil"))
                                    ELSE [returned |-> TRUE, root |-> Root(t.tree),
                                          tree |-> t.tree, dist |-> dist', err |-> NoErr]
    /\ UNCHANGED <<totalCount, order, fault, startIndex, allReservations, rangeCalls,
                   pagesReturned, fetched>>
    /\ UNCHANGED <<distVars, extVars>>

Next == FetchCount \/ FetchRange \/ CalcTableBytes

Spec == Init /\ [][Next]_vars

(***************************************************************************)
(* SpecDist: a Distribution under its methods                              *)
(***************************************************************************)
DistGroups ==
    {OperatorSet((k + 1) \div 2, IF k % 2 = 1 THEN "0xA1" ELSE "0xB2") : k \in 1..NumGroups}

\* the non-empty group lists, duplicates included
Lists == UNION {[1..n -> DistGroups] : n \in 1..MaxListLen}

DataValues == {<<1>>, <<2>>}

InitDist ==
    /\ totalCount = 0
    /\ order = "asc"
    /\ fault = [kind |-> "none", at |-> 0]
    /\ pc = "idle"
    /\ startIndex = 0
    /\ allReservations = NilSlice
    /\ rangeCalls = <<>>
    /\ pagesReturned = <<>>
    /\ fetched = NotFetched
    /\ dist = NilDistribution
    /\ opsetTableRoots = <<>>
    /\ i = 0
    /\ payloadCalls = <<>>
    /\ result = NotReturned
    /\ d = NewDistribution
    /\ lastList = <<>>
    /\ setCalls = 0
    /\ lastCall = NoCall
    /\ TransportIdle
    /\ SignerIdle
    /\ MoreIdle

\* NewDistributionWithOperatorSets(operatorSets), in place of NewDistribution()
DistNewWithOperatorSets ==
    /\ pc = "idle"
    /\ setCalls = 0
    /\ lastCall = NoCall
    /\ \E operatorSets \in Lists :
        /\ d' = NewDistributionWithOperatorSets(operatorSets)
        /\ lastList' = operatorSets
        /\ setCalls' = 1
        /\ lastCall' = Call("new", d, ZeroOperatorSet, FALSE, FALSE, <<>>, FALSE)
    /\ UNCHANGED <<calcVars, extVars>>

\* d.SetOperatorSets(operatorSets)
DistSetOperatorSets ==
    /\ pc = "idle"
    /\ setCalls < MaxSetCalls
    /\ \E operatorSets \in Lists :
        LET repeated == setCalls > 0 /\ operatorSets = lastList
        IN  /\ d' = SetOperatorSets(d, operatorSets)
            /\ lastList' = operatorSets
            /\ setCalls' = setCalls + 1
            /\ lastCall' = Call("set", d, ZeroOperatorSet, FALSE, FALSE, <<>>, repeated)
    /\ UNCHANGED <<calcVars, extVars>>

\* d.SetTableData(opset, data)
DistSetTableData ==
    /\ pc = "idle"
    /\ \E opset \in DistGroups, data \in DataValues :
        LET ret == SetTableData(d, opset, data)
        IN  /\ d' = ret.dist
            /\ lastCall' = Call("data", d, opset, ret.err, FALSE, <<>>, FALSE)
    /\ UNCHANGED <<lastList, setCalls>>
    /\ UNCHANGED <<calcVars, extVars>>

\* d.GetOrderedOperatorSets()
DistGetOrderedOperatorSets ==
    /\ pc = "idle"
    /\ \E ret \in GetOrderedOperatorSets(d) :
        lastCall' = Call("ordered", d, ZeroOperatorSet, FALSE, ret.panicked, ret.sets, FALSE)
    /\ UNCHANGED <<d, lastList, setCalls>>
    /\ UNCHANGED <<calcVars, extVars>>

NextDist ==
    \/ DistNewWithOperatorSets
    \/ DistSetOperatorSets
    \/ DistSetTableData
    \/ DistGetOrderedOperatorSets

SpecDist == InitDist /\ [][NextDist]_vars

(***************************************************************************)
(* Claims about the calculator (Spec)                                      *)
(***************************************************************************)
Min(a, b) == IF a < b THEN a ELSE b

\* the pages in call order, one after the other
RECURSIVE Flatten(_)
Flatten(pages) == IF pages = <<>> THEN <<>> ELSE Head(pages) \o Flatten(Tail(pages))

\* ceil(n / pageSize)
CeilPages(n) == IF n % pageSize = 0 THEN n \div pageSize ELSE n \div pageSize + 1

FetchSucceeded == fetched.returned /\ fetched.err = NoErr
CalcSucceeded == result.returned /\ result.err = NoErr

\* C1: for a registry count n, the paginated fetch issues exactly ceil(n/50)
\* range calls, one per step, the k-th for [50k, min(50(k+1), n)), in ascending
\* order; it cannot stop before it returns, and what it returns is the
\* concatenation of the returned pages in call order, of length n; for n = 0
\* it issues no range call and returns an empty non-nil list without error.
C1_PaginatedFetch ==
    /\ Len(rangeCalls) <= CeilPages(totalCount)
    /\ \A k \in 1..Len(rangeCalls) :
          rangeCalls[k] = <<pageSize * (k - 1), Min(pageSize * k, totalCount)>>
    /\ pc = "paging" =>
          /\ ~fetched.returned
          /\ startIndex = pageSize * Len(rangeCalls)
          /\ startIndex < totalCount
    /\ pc \in {"payloads", "done"} => fetched.returned
    /\ pc \in {"start", "paging"} => ENABLED (FetchCount \/ FetchRange)
    /\ FetchSucceeded =>
          /\ Len(rangeCalls) = CeilPages(totalCount)
          /\ Len(pagesReturned) = Len(rangeCalls)
          /\ fetched.res.items = Flatten(pagesReturned)
          /\ Len(fetched.res.items) = totalCount
    /\ (FetchSucceeded /\ totalCount = 0) =>
          /\ rangeCalls = <<>>
          /\ fetched.res = EmptySlice

\* C1 witness: a fetch over two full pages and a partial third has returned
C1_Witness ==
    /\ FetchSucceeded
    /\ totalCount = 2 * pageSize + 1
    /\ Len(rangeCalls) = 3
    /\ rangeCalls[3] = <<2 * pageSize, totalCount>>

\* C2: with zero active groups CalculateStakeTableRoot returns the all-zero
\* root, an empty (non-nil) Distribution and no error, and makes no
\* payload-computation call.
C2_ZeroGroups ==
    (totalCount = 0 /\ fault.kind # "count") =>
        /\ payloadCalls = <<>>
        /\ pc = "done" => result.returned
        /\ result.returned =>
              /\ result.root = ZeroHash
              /\ result.tree = NilTree
              /\ result.dist = NewDistribution
              /\ result.err = NoErr

\* C2 witness: the call has returned for a registry without groups
C2_Witness == totalCount = 0 /\ fault.kind = "none" /\ result.returned /\ pc = "done"

\* C3: a failed count fetch aborts before any range call, and a failed range
\* call [start, end) is the last one issued; either way the fetch returns nil
\* (no partial result) with an error wrapping the cause, which for a range
\* failure names that range.
C3_FetchFailure ==
    /\ fault.kind = "count" =>
          /\ rangeCalls = <<>>
          /\ pc = "done" => fetched.returned
          /\ fetched.returned =>
                /\ fetched.res = NilSlice
                /\ fetched.err # NoErr
                /\ fetched.err.cause = ErrRegistry
                /\ result.returned /\ result.err # NoErr /\ result.err.cause = ErrRegistry
    /\ fault.kind = "range" =>
          /\ Len(rangeCalls) <= fault.at + 1
          /\ pc = "done" => fetched.returned
          /\ fetched.returned =>
                /\ Len(rangeCalls) = fault.at + 1
                /\ rangeCalls[fault.at + 1] =
                      <<pageSize * fault.at, Min(pageSize * (fault.at + 1), totalCount)>>
                /\ fetched.res = NilSlice
                /\ fetched.err # NoErr
                /\ fetched.err.start = rangeCalls[fault.at + 1][1]
                /\ fetched.err.end = rangeCalls[fault.at + 1][2]
                /\ fetched.err.cause = ErrRegistry
                /\ result.returned /\ result.err # NoErr /\ result.err.cause = ErrRegistry
                /\ payloadCalls = <<>>

\* C3 witness: the second range call failed after a first page had been fetched
C3_Witness ==
    /\ fault.kind = "range" /\ fault.at = 1
    /\ fetched.returned
    /\ Len(pagesReturned) = 1
    /\ fetched.err.start = pageSize

\* C4: a failed payload computation for one group aborts the calculation: an
\* error and no root, tree or Distribution; and no successful result has a
\* hole leaf or an indexed group without a payload.
C4_AbortOnPayloadFailure ==
    /\ (result.returned /\ fault.kind = "payload") =>
          /\ result.err # NoErr
          /\ result.root = ZeroHash
          /\ result.tree = NilTree
          /\ result.dist = NilDistribution
    /\ (CalcSucceeded /\ ~result.tree.isNil) =>
          /\ \A k \in 1..Len(result.tree.Data) : result.tree.Data[k] # NilBytes
          /\ \A g \in DOMAIN result.dist.TableIndices : g \in DOMAIN result.dist.tableData

\* C5: after a successful calculation over N > 0 groups, the group at
\* position i of the concatenated paging sequence has Distribution index i and
\* the leaf built from its payload is at position i of the tree's data.
C5_IndexAndLeafOrder ==
    (CalcSucceeded /\ totalCount > 0) =>
        LET groups == Flatten(pagesReturned)
        IN  /\ Len(groups) = totalCount
            /\ Len(result.tree.Data) = totalCount
            /\ \A k \in 1..Len(groups) :
                  /\ GetTableIndex(result.dist, groups[k]) = [index |-> k - 1, ok |-> TRUE]
                  /\ result.tree.Data[k] =
                        EncodeOperatorTableLeaf(OperatorTableBytes(groups[k]))

\* C10: for every group g with index i in the Distribution of a successful
\* calculation, the proof generated for leaf index i recombines with the leaf
\* of payload[g] (the bytes GetTableData(g) returns) to the returned root.
C10_ProofRecombines ==
    (CalcSucceeded /\ ~result.tree.isNil) =>
        \A g \in DOMAIN result.dist.TableIndices :
            LET index == GetTableIndex(result.dist, g).index
                payload == GetTableData(result.dist, g)
            IN  /\ payload.ok
                /\ RecombineProof(EncodeOperatorTableLeaf(payload.data),
                                  GenerateProofWithIndex(result.tree, index), index)
                      = result.root

(***************************************************************************)
(* Claims about the Distribution (SpecDist)                                *)
(***************************************************************************)
DuplicateFree(s) == \A p, q \in 1..Len(s) : s[p] = s[q] => p = q

\* C6: once groups were supplied, the index map is a bijection from the stored
\* groups onto [0, N), and index(L[i]) = i for the list L last supplied, also
\* for lists with duplicates and after a second SetOperatorSets.
C6_IndexBijection ==
    setCalls > 0 =>
        LET idx == d.TableIndices
            N == Cardinality(DOMAIN idx)
        IN  /\ {idx[g] : g \in DOMAIN idx} = 0..(N - 1)
            /\ \A g, h \in DOMAIN idx : idx[g] = idx[h] => g = h
            /\ \A p \in 1..Len(lastList) : idx[lastList[p]] = p - 1

\* C7: payload keys are always index keys; SetTableData stores only for an
\* indexed group, and for a group without an index returns an error and
\* leaves both maps unchanged; no call removes an entry of either map.
C7_PayloadKeysIndexed ==
    /\ DOMAIN d.tableData \subseteq DOMAIN d.TableIndices
    /\ lastCall.op = "data" =>
          /\ lastCall.err <=> lastCall.opset \notin DOMAIN lastCall.before.TableIndices
          /\ lastCall.err => d = lastCall.before
          /\ ~lastCall.err =>
                /\ lastCall.opset \in DOMAIN d.tableData
                /\ d.TableIndices = lastCall.before.TableIndices
    /\ lastCall.op # "none" =>
          /\ DOMAIN lastCall.before.TableIndices \subseteq DOMAIN d.TableIndices
          /\ DOMAIN lastCall.before.tableData \subseteq DOMAIN d.tableData

\* C7 witness: SetTableData has just refused a group without an index, on a
\* Distribution that already stores a payload
C7_Witness ==
    /\ lastCall.op = "data" /\ lastCall.err
    /\ DOMAIN d.tableData # {}

\* C8: SetOperatorSets(L) a second time leaves the index mapping as the first
\* call made it, and a Distribution built from L has the same index mapping
\* whether L is applied once or twice.
C8_RebuildIdempotent ==
    /\ (lastCall.op = "set" /\ lastCall.repeated) =>
          d.TableIndices = lastCall.before.TableIndices
    /\ setCalls > 0 =>
          SetOperatorSets(NewDistributionWithOperatorSets(lastList), lastList).TableIndices
             = NewDistributionWithOperatorSets(lastList).TableIndices

\* C8 witness: the same two-group list has just been supplied a second time
C8_Witness ==
    /\ lastCall.op = "set" /\ lastCall.repeated
    /\ Len(lastList) = 2 /\ DuplicateFree(lastList)

\* C9: GetOrderedOperatorSets never panics, also on an empty Distribution,
\* where it returns the empty list; for a Distribution built from one
\* duplicate-free list L it returns L (length len(L), the group with index i
\* at position i).
C9_OrderedGroups ==
    lastCall.op = "ordered" =>
        /\ ~lastCall.panicked
        /\ setCalls = 0 => lastCall.sets = <<>>
        /\ (setCalls = 1 /\ DuplicateFree(lastList)) =>
              /\ Len(lastCall.sets) = Len(lastList)
              /\ \A p \in 1..Len(lastList) : d.TableIndices[lastCall.sets[p]] = p - 1
              /\ lastCall.sets = lastList

(***************************************************************************)
(* SpecTransport: pkg/transport, one SignAndTransportGlobalTableRoot or    *)
(* SignAndTransportAvsStakeTable call against the destination chains       *)
(***************************************************************************)
\* chain ids 1..MaxChains; at most MaxIgnored of them in ignoreChainIds
MaxChains == 3
MaxIgnored == 2

ChainIdSet == 1..MaxChains

\* what GetSupportedChains can return: lists of distinct chain ids
ChainLists ==
    UNION {{l \in [1..n -> ChainIdSet] : \A p, q \in 1..n : l[p] = l[q] => p = q} :
             n \in 0..MaxChains}

IgnoreSets == {S \in SUBSET ChainIdSet : Cardinality(S) <= MaxIgnored}

\* a non-zero root
SomeRoot == HashLeaf(<<1>>)

\* the Distribution and tree handed to SignAndTransportAvsStakeTable: the
\* first group has an index and a payload, the second an index only, the
\* third neither
AvsGroups == <<OperatorSet(1, "0xA1"), OperatorSet(2, "0xA1"), OperatorSet(3, "0xA1")>>
AvsDistribution ==
    SetTableData(NewDistributionWithOperatorSets(<<AvsGroups[1], AvsGroups[2]>>),
                 AvsGroups[1], <<1>>).dist
AvsTree == NewTree(<<EncodeOperatorTableLeaf(<<1>>), NilBytes>>).tree

\* the hash GetGlobalTableUpdateMessageHash of a chain's updater returns
MessageHash(chain) == [t |-> "canonical", chain |-> chain]
NoHash == [t |-> "none", chain |-> 0]

\* a call made by the transport: chain 0 for calls that address no
\* destination chain; hash is the hash signed, status the receipt status
Event(chain, step, hash, status) ==
    [chain |-> chain, step |-> step, hash |-> hash, status |-> status]
Called(chain, step) == Event(chain, step, NoHash, -1)

\* the calls of one loop iteration up to the transaction build, in code order
GlobalPrepareSteps == <<"lookup", "bind", "hash", "sign", "timestamp", "txopts", "build">>
AvsPrepareSteps == <<"txopts", "lookup", "bind", "build">>
PrepareSteps(op) == IF op = "global" THEN GlobalPrepareSteps ELSE AvsPrepareSteps

\* the calls of estimateGasPriceAndLimitAndSendTx up to the broadcast
SendSteps == <<"tipcap", "header", "estimate", "transactopts", "send">>

StepEvent(chain, step) ==
    Event(chain, step, IF step = "sign" THEN MessageHash(chain) ELSE NoHash, -1)

\* the events of the first n steps
StepEvents(chain, steps, n) == [k \in 1..n |-> StepEvent(chain, steps[k])]

\* the error returned for a failed step; chainId 0: the text names no chain
TrErr(msg, chainId) == [msg |-> msg, chainId |-> chainId]
StepErr(op, step, chain) ==
    CASE step = "lookup" -> TrErr("failed to get chain for ID", chain)
      [] step = "bind" -> TrErr("failed to get operator table updater transactor for chain", chain)
      [] step = "hash" -> TrErr("failed to get global table update message hash", 0)
      [] step = "sign" -> TrErr("failed to sign message hash", 0)
      [] step = "timestamp" -> TrErr("failed to get latest reference timestamp", 0)
      [] step = "txopts" -> TrErr("failed to get transaction options", 0)
      [] step = "build" -> IF op = "global" THEN TrErr("", 0)
                           ELSE TrErr("failed to update AVS stake table", 0)
      [] OTHER -> TrErr("failed to ensure transaction evaled", 0)

\* the step that failed, for which chain, and why: "unsupported" when the
\* chain's verifier has no such method, "error" otherwise
Failure(chain, step, cause) == [chain |-> chain, step |-> step, cause |-> cause]
NoFailure == Failure(0, "none", "none")
NoTrErr == TrErr("nil", 0)
NotReturnedTr == [returned |-> FALSE, err |-> NoTrErr]
ReturnedTr(err) == [returned |-> TRUE, err |-> err]

\* faulty variant of IsEmptyRoot: the empty root is transported like any other
IsEmptyRootNever(r) == FALSE

\* root == emptyRoot
IsEmptyRoot(r) == r = ZeroHash

\* faulty variant of Ignored: no chain is skipped
IgnoredNever(chainId, ignored) == FALSE

\* util.Find(ignoreChainIds, chainId.Cmp(id) == 0) != nil
Ignored(chainId, ignored) == chainId \in ignored

\* the position of the next chain of the loop that is not skipped, 0 if none
NextPos(pos) ==
    LET rest == {j \in (pos + 1)..Len(chainIds) : ~Ignored(chainIds[j], ignoreChainIds)}
    IN  IF rest = {} THEN 0 ELSE CHOOSE j \in rest : \A k \in rest : j <= k

\* faulty variant of OnError: an unknown chain is passed over
OnErrorNextChain(step) == IF step = "lookup" THEN "continue" ELSE "return"

\* what the loop does when a step returns an error
OnError(step) == "return"

\* faulty variant of AfterBroadcast: the receipt is not awaited
AfterBroadcastNoWait == "next"

\* what follows a successful broadcast
AfterBroadcast == "await"

\* faulty variant of ReceiptOk: the receipt status is not looked at
ReceiptAny(status) == TRUE

\* receipt.Status != 1 is a failure
ReceiptOk(status) == status = 1

\* generateOperatorSetProof
generateOperatorSetProof(tree, dst, opset) ==
    LET idx == GetTableIndex(dst, opset)
        data == GetTableData(dst, opset)
    IN  IF ~idx.ok
        THEN [err |-> TrErr("operator set not found in distribution", 0), index |-> 0,
              proof |-> <<>>]
        ELSE IF ~data.ok
        THEN [err |-> TrErr("failed to get table data for operator set", 0), index |-> 0,
              proof |-> <<>>]
        ELSE [err |-> NoTrErr, index |-> idx.index,
              proof |-> GenerateProofWithIndex(tree, idx.index)]

\* faulty variant of AvsPrecheck: the Distribution is not consulted
AvsPrecheckNone(tree, dst, opset) == NoTrErr

\* SignAndTransportAvsStakeTable before GetSupportedChains: the proof, then the payload
AvsPrecheck(tree, dst, opset) ==
    LET p == generateOperatorSetProof(tree, dst, opset)
    IN  IF p.err # NoTrErr THEN p.err
        ELSE IF ~GetTableData(dst, opset).ok
        THEN TrErr("operator set not found in distribution", 0)
        ELSE NoTrErr


\* the calculator and the Distribution of the other specifications are not used
CalcIdle ==
    /\ totalCount = 0
    /\ order = "asc"
    /\ fault = [kind |-> "none", at |-> 0]
    /\ pc = "idle"
    /\ startIndex = 0
    /\ allReservations = NilSlice
    /\ rangeCalls = <<>>
    /\ pagesReturned = <<>>
    /\ fetched = NotFetched
    /\ dist = NilDistribution
    /\ opsetTableRoots = <<>>
    /\ i = 0
    /\ payloadCalls = <<>>
    /\ result = NotReturned

DistIdle ==
    /\ d = NilDistribution
    /\ lastList = <<>>
    /\ setCalls = 0
    /\ lastCall = NoCall

InitTransport ==
    /\ CalcIdle
    /\ DistIdle
    /\ SignerIdle
    /\ MoreIdle
    /\ trOp \in {"global", "avs"}
    /\ root \in (IF trOp = "global" THEN {ZeroHash, SomeRoot} ELSE {Root(AvsTree)})
    /\ operatorSet \in (IF trOp = "global" THEN {ZeroOperatorSet} ELSE SeqRange(AvsGroups))
    /\ ignoreChainIds \in IgnoreSets
    /\ chainIds \in ChainLists
    /\ tpc = "start"
    /\ chainPos = 0
    /\ calls = <<>>
    /\ failedAt = NoFailure
    /\ trResult = NotReturnedTr
    /\ confirmed = {}
    /\ pending = {}

\* return err
Return(err) ==
    /\ trResult' = ReturnedTr(err)
    /\ tpc' = "returned"
    /\ UNCHANGED chainPos

\* on to the next chain that is not skipped; return nil after the last one
Advance ==
    IF NextPos(chainPos) = 0
    THEN Return(NoTrErr)
    ELSE /\ chainPos' = NextPos(chainPos)
         /\ tpc' = "prepare"
         /\ UNCHANGED trResult

\* a step of the current chain returned an error
StepFails(step, cause) ==
    /\ failedAt' = Failure(chainIds[chainPos], step, cause)
    /\ IF OnError(step) = "return"
       THEN Return(StepErr(trOp, step, chainIds[chainPos]))
       ELSE Advance

\* the call up to the chain loop: the empty-root check, the public key and
\* the supported chains (global root); the proof and the payload, then the
\* supported chains (AVS stake table)
TrStart ==
    /\ tpc = "start"
    /\ IF trOp = "global"
       THEN IF IsEmptyRoot(root)
            THEN /\ Return(NoTrErr)
                 /\ UNCHANGED <<calls, failedAt>>
            ELSE \E outcome \in {"ok", "pubkey", "chains"} :
                   /\ calls' = calls \o
                        (IF outcome = "pubkey"
                         THEN <<Called(0, "pubkey")>>
                         ELSE <<Called(0, "pubkey"), Called(0, "chains")>>)
                   /\ IF outcome = "pubkey"
                      THEN /\ failedAt' = Failure(0, "pubkey", "error")
                           /\ Return(TrErr("failed to get APK from private key", 0))
                      ELSE IF outcome = "chains"
                      THEN /\ failedAt' = Failure(0, "chains", "error")
                           /\ Return(TrErr("failed to get supported chains", 0))
                      ELSE IF Len(chainIds) = 0
                      THEN /\ failedAt' = Failure(0, "nochains", "error")
                           /\ Return(TrErr("no supported chains found in cross-chain registry", 0))
                      ELSE /\ UNCHANGED failedAt
                           /\ Advance
       ELSE LET pre == AvsPrecheck(AvsTree, AvsDistribution, operatorSet)
            IN  IF pre # NoTrErr
                THEN /\ failedAt' = Failure(0, "precheck", "error")
                     /\ Return(pre)
                     /\ UNCHANGED calls
                ELSE \E outcome \in {"ok", "chains"} :
                       /\ calls' = calls \o <<Called(0, "chains")>>
                       /\ IF outcome = "chains"
                          THEN /\ failedAt' = Failure(0, "chains", "error")
                               /\ Return(TrErr("failed to get supported chains", 0))
                          ELSE /\ UNCHANGED failedAt
                               /\ Advance
    /\ UNCHANGED <<trOp, root, operatorSet, ignoreChainIds, chainIds, confirmed, pending>>
    /\ UNCHANGED <<calcVars, distVars, kmsVars, moreVars>>

\* one loop iteration up to the built transaction: n steps succeed
TrPrepare ==
    /\ tpc = "prepare"
    /\ LET chain == chainIds[chainPos]
           steps == PrepareSteps(trOp)
       IN  \E n \in 0..Len(steps) :
             IF n = Len(steps)
             THEN /\ calls' = calls \o StepEvents(chain, steps, n)
                  /\ tpc' = "send"
                  /\ UNCHANGED <<chainPos, trResult, failedAt>>
             ELSE /\ calls' = calls \o StepEvents(chain, steps, n + 1)
                  /\ \E cause \in (IF steps[n + 1] = "hash" THEN {"error", "unsupported"}
                                    ELSE {"error"}) :
                        StepFails(steps[n + 1], cause)
    /\ UNCHANGED <<trOp, root, operatorSet, ignoreChainIds, chainIds, confirmed, pending>>
    /\ UNCHANGED <<calcVars, distVars, kmsVars, moreVars>>

\* estimateGasPriceAndLimitAndSendTx up to the broadcast: a failed
\* SuggestGasTipCap falls back to FallbackGasTipCap, any other failure returns
TrSend ==
    /\ tpc = "send"
    /\ LET chain == chainIds[chainPos]
       IN  \E n \in 1..Len(SendSteps) :
             IF n = Len(SendSteps)
             THEN /\ calls' = calls \o StepEvents(chain, SendSteps, n)
                  /\ pending' = pending \cup {chain}
                  /\ UNCHANGED failedAt
                  /\ IF AfterBroadcast = "await"
                     THEN /\ tpc' = "await"
                          /\ UNCHANGED <<chainPos, trResult>>
                     ELSE Advance
             ELSE /\ calls' = calls \o StepEvents(chain, SendSteps, n + 1)
                  /\ StepFails(SendSteps[n + 1], "error")
                  /\ UNCHANGED pending
    /\ UNCHANGED <<trOp, root, operatorSet, ignoreChainIds, chainIds, confirmed>>
    /\ UNCHANGED <<calcVars, distVars, kmsVars, moreVars>>

\* ensureTransactionEvaled: WaitMined returns the receipt of the mined
\* transaction, or an error when ctx is done first
TrAwait ==
    /\ tpc = "await"
    /\ LET chain == chainIds[chainPos]
       IN  \E outcome \in {"success", "reverted", "ctxDone"} :
             IF outcome = "ctxDone"
             THEN /\ calls' = calls \o <<Called(chain, "wait")>>
                  /\ StepFails("wait", "error")
                  /\ UNCHANGED <<pending, confirmed>>
             ELSE LET status == IF outcome = "success" THEN 1 ELSE 0
                  IN  /\ calls' = calls \o
                           <<Called(chain, "wait"), Event(chain, "receipt", NoHash, status)>>
                      /\ pending' = pending \ {chain}
                      /\ confirmed' = IF status = 1 THEN confirmed \cup {chain} ELSE confirmed
                      /\ IF ReceiptOk(status)
                         THEN /\ UNCHANGED failedAt
                              /\ Advance
                         ELSE StepFails("receipt", "error")
    /\ UNCHANGED <<trOp, root, operatorSet, ignoreChainIds, chainIds>>
    /\ UNCHANGED <<calcVars, distVars, kmsVars, moreVars>>

\* a destination chain mines a transaction that was broadcast and not awaited
ChainMines ==
    /\ tpc = "returned"
    /\ \E chain \in pending, status \in {0, 1} :
         /\ pending' = pending \ {chain}
         /\ confirmed' = IF status = 1 THEN confirmed \cup {chain} ELSE confirmed
    /\ UNCHANGED <<trOp, root, operatorSet, ignoreChainIds, chainIds, tpc, chainPos, calls,
                   failedAt, trResult>>
    /\ UNCHANGED <<calcVars, distVars, kmsVars, moreVars>>

NextTransport == TrStart \/ TrPrepare \/ TrSend \/ TrAwait \/ ChainMines

SpecTransport == InitTransport /\ [][NextTransport]_vars


(***************************************************************************)
(* Claims about the transport (SpecTransport)                              *)
(***************************************************************************)
\* the position of a chain in the supported-chains list, 0 if it is not there
PosOf(chain) ==
    IF \E j \in 1..Len(chainIds) : chainIds[j] = chain
    THEN CHOOSE j \in 1..Len(chainIds) : chainIds[j] = chain
    ELSE 0

\* the supported chains that are not in the skip list
NotSkipped == {c \in SeqRange(chainIds) : c \notin ignoreChainIds}

\* the chains of NotSkipped before / after a chain in list order
Before(chain) == {c \in NotSkipped : PosOf(c) < PosOf(chain)}
After(chain) == {c \in NotSkipped : PosOf(c) > PosOf(chain)}

\* the number of calls of a step made for a chain
CountCalls(chain, step) ==
    Cardinality({j \in 1..Len(calls) : calls[j].chain = chain /\ calls[j].step = step})

TrFailed == trResult.returned /\ trResult.err # NoTrErr

\* C11: SignAndTransportGlobalTableRoot with the all-zero root returns nil and
\* makes no call at all: no supported-chains query, no BLS public key or
\* signature request, no transaction built or submitted on any chain.
C11_ZeroRootNoOp ==
    (trOp = "global" /\ root = ZeroHash) =>
        /\ calls = <<>>
        /\ pending = {}
        /\ confirmed = {}
        /\ tpc \in {"start", "returned"}
        /\ tpc = "returned" => (trResult.returned /\ trResult.err = NoTrErr)

\* C11 witness: the call with the zero root has returned although a chain
\* was there to be served
C11_Witness ==
    /\ trOp = "global" /\ root = ZeroHash
    /\ trResult.returned
    /\ NotSkipped # {}

\* C12: no call of either transport function is made for a chain in the
\* skip list (no read, signature, build or submission), and a call that
\* returns nil has served every supported chain not in the skip list, in
\* list order.
C12_SkippedChains ==
    /\ \A j \in 1..Len(calls) : calls[j].chain \notin ignoreChainIds
    /\ (pending \cup confirmed) \cap ignoreChainIds = {}
    /\ tpc \in {"prepare", "send", "await"} => chainIds[chainPos] \notin ignoreChainIds
    /\ (trResult.returned /\ trResult.err = NoTrErr /\ root # ZeroHash) =>
          /\ confirmed = NotSkipped
          /\ \A c \in NotSkipped : CountCalls(c, "send") = 1
    /\ \A j, k \in 1..Len(calls) :
          (j < k /\ calls[j].chain # 0 /\ calls[k].chain # 0) =>
              PosOf(calls[j].chain) <= PosOf(calls[k].chain)

\* C12 witness: a call has served the chains on both sides of a skipped one
C12_Witness ==
    /\ trResult.returned /\ trResult.err = NoTrErr
    /\ Len(chainIds) = 3
    /\ chainIds[2] \in ignoreChainIds
    /\ confirmed = {chainIds[1], chainIds[3]}

\* C13, common part: a failed step for chain k makes
\* SignAndTransportGlobalTableRoot return an error at once: every step of
\* chain k was called at most once, no call is made for a chain after k, and
\* the root stays confirmed on every non-skipped chain before k.
C13_AbortsAtFailure ==
    (trOp = "global" /\ failedAt.chain # 0) =>
        /\ TrFailed
        /\ calls[Len(calls)].chain = failedAt.chain
        /\ \A j, k \in 1..Len(calls) :
              (calls[j].chain = failedAt.chain /\ calls[j].step = calls[k].step
                  /\ calls[k].chain = failedAt.chain) => j = k
        /\ \A j \in 1..Len(calls) : calls[j].chain \notin After(failedAt.chain)
        /\ Before(failedAt.chain) \subseteq confirmed
        /\ confirmed \cap After(failedAt.chain) = {}

\* C13 as stated: moreover the root is confirmed on exactly the non-skipped
\* chains before k.
C13_ExactlyChainsBefore ==
    /\ C13_AbortsAtFailure
    /\ (trOp = "global" /\ failedAt.chain # 0) => confirmed = Before(failedAt.chain)

\* C13 amended: the root is confirmed on every non-skipped chain before k, on
\* no chain after k, and on k itself only if the step that failed was the
\* wait for the receipt of a transaction already broadcast.
C13_ChainsBeforeAndAwaited ==
    /\ C13_AbortsAtFailure
    /\ (trOp = "global" /\ failedAt.chain # 0) =>
          /\ confirmed \subseteq Before(failedAt.chain) \cup {failedAt.chain}
          /\ failedAt.chain \in confirmed => failedAt.step = "wait"
          /\ failedAt.step # "wait" => confirmed = Before(failedAt.chain)

\* C13 witness: the second of three chains failed after the first was confirmed
C13_Witness ==
    /\ trOp = "global" /\ TrFailed
    /\ Len(chainIds) = 3 /\ ignoreChainIds = {}
    /\ failedAt.chain = chainIds[2]
    /\ confirmed = {chainIds[1]}

\* C14: the error SignAndTransportGlobalTableRoot returns for a failed step of
\* a chain names that chain's id, whichever step failed.
C14_ErrorNamesChain ==
    (trOp = "global" /\ trResult.returned /\ failedAt.chain # 0) =>
        trResult.err.chainId = failedAt.chain


\* C15: chains are served one at a time in list order: every call made for a
\* chain b comes after the successful receipt of each non-skipped chain a
\* that precedes b in the supported-chains list.
C15_OneChainAtATime ==
    /\ \A k \in 1..Len(calls) :
          calls[k].chain # 0 =>
              \A a \in Before(calls[k].chain) :
                  \E j \in 1..(k - 1) :
                      calls[j] = Event(a, "receipt", NoHash, 1)
    /\ \A j, k \in 1..Len(calls) :
          (j < k /\ calls[j].chain # 0 /\ calls[k].chain # 0) =>
              PosOf(calls[j].chain) <= PosOf(calls[k].chain)
    /\ tpc \in {"prepare", "send", "await"} =>
          /\ pending \subseteq {chainIds[chainPos]}
          /\ Before(chainIds[chainPos]) \subseteq confirmed

\* C15 witness: a second chain is being served after the first was confirmed
C15_Witness ==
    /\ tpc = "send"
    /\ chainPos = 2 /\ ignoreChainIds = {}
    /\ confirmed = {chainIds[1]}
    /\ calls[Len(calls)].chain = chainIds[2]

\* C16: the hash signed for a chain is the one that chain's verifier returned
\* for the query, and a verifier that does not support the query does not
\* fail the chain: the call goes on with the local hash.
C16_CanonicalHashOrFallback ==
    trOp = "global" =>
        /\ \A j \in 1..Len(calls) :
              calls[j].step = "sign" => calls[j].hash = MessageHash(calls[j].chain)
        /\ ~(failedAt.step = "hash" /\ failedAt.cause = "unsupported")

\* C17: SignAndTransportAvsStakeTable for a group without an index or without
\* a payload returns an error before any call: no supported-chains query, no
\* transaction built or submitted.
C17_AvsFailsFast ==
    (/\ trOp = "avs"
     /\ \/ ~GetTableIndex(AvsDistribution, operatorSet).ok
        \/ ~GetTableData(AvsDistribution, operatorSet).ok) =>
        /\ calls = <<>>
        /\ pending = {}
        /\ confirmed = {}
        /\ tpc \in {"start", "returned"}
        /\ tpc = "returned" => TrFailed

\* C17 witness: the call for a group with an index and no payload has returned
C17_Witness ==
    /\ trOp = "avs" /\ trResult.returned
    /\ GetTableIndex(AvsDistribution, operatorSet).ok
    /\ ~GetTableData(AvsDistribution, operatorSet).ok
    /\ NotSkipped # {}

\* C18: a receipt with a status other than success is the last call of the
\* transport call, which returns an error; the transaction was broadcast
\* exactly once, and no transaction is broadcast twice.
C18_FailedReceiptIsFatal ==
    /\ \A j \in 1..Len(calls) :
          (calls[j].step = "receipt" /\ calls[j].status # 1) =>
              /\ j = Len(calls)
              /\ TrFailed
              /\ failedAt = Failure(calls[j].chain, "receipt", "error")
              /\ CountCalls(calls[j].chain, "send") = 1
    /\ \A c \in ChainIdSet : CountCalls(c, "send") <= 1

\* C18 witness: the transaction of the second chain was mined and reverted
C18_Witness ==
    /\ TrFailed
    /\ failedAt.step = "receipt"
    /\ Len(chainIds) >= 2
    /\ failedAt.chain = chainIds[2]
    /\ confirmed = {chainIds[1]}


(***************************************************************************)
(* SpecSigner: pkg/txSigner, AWSKMSSigner.SignerFn on one KMS signature,   *)
(* with the curve order and the signature width scaled down to 16 bits     *)
(***************************************************************************)
\* the curve order (a prime below 2^16) and half of it
secp256k1N == 65521
secp256k1HalfN == secp256k1N \div 2

\* the width in bytes of r and of s in the signature
SigLen == 2

\* big.Int.Bytes: big-endian, no leading zero, empty for 0
RECURSIVE Bytes(_)
Bytes(n) == IF n = 0 THEN <<>> ELSE Append(Bytes(n \div 256), n % 256)

\* big.Int.SetBytes: big-endian, unsigned
RECURSIVE SetBytes(_)
SetBytes(b) ==
    IF b = <<>> THEN 0 ELSE 256 * SetBytes(SubSeq(b, 1, Len(b) - 1)) + b[Len(b)]

\* the content of an ASN.1 INTEGER (asn1.RawValue.Bytes) of a non-negative
\* number: a zero byte goes before a first byte with the top bit set
DerInteger(n) ==
    IF n = 0 THEN <<0>>
    ELSE IF Bytes(n)[1] >= 128 THEN <<0>> \o Bytes(n) ELSE Bytes(n)

\* bytes.TrimLeft(buffer, "\x00")
RECURSIVE TrimLeftZero(_)
TrimLeftZero(b) == IF b # <<>> /\ b[1] = 0 THEN TrimLeftZero(Tail(b)) ELSE b

\* zeros put in front until the length is SigLen
RECURSIVE PadLeft(_)
PadLeft(b) == IF Len(b) < SigLen THEN PadLeft(<<0>> \o b) ELSE b

adjustSignatureLength(buffer) == PadLeft(TrimLeftZero(buffer))

\* faulty variant of LowS: s is left as the KMS returned it
LowSUnchanged(sBytes) == sBytes

\* SignerFn: s above half the curve order is replaced by N - s
LowS(sBytes) ==
    IF SetBytes(sBytes) > secp256k1HalfN
    THEN Bytes(secp256k1N - SetBytes(sBytes))
    ELSE sBytes

\* getEthereumSignature: recover(v) is what crypto.Ecrecover yields for
\* r || s || v: "key" the signer's public key, "other" another key, "error"
getEthereumSignature(recover, r, sb) ==
    LET rsSignature == adjustSignatureLength(r) \o adjustSignatureLength(sb)
    IN  IF recover[1] = "error"
        THEN [returned |-> TRUE, err |-> "ecrecover", signature |-> <<>>, tried |-> <<0>>]
        ELSE IF recover[1] = "key"
        THEN [returned |-> TRUE, err |-> "nil", signature |-> rsSignature \o <<0>>,
              tried |-> <<0>>]
        ELSE IF recover[2] = "error"
        THEN [returned |-> TRUE, err |-> "ecrecover", signature |-> <<>>, tried |-> <<0, 1>>]
        ELSE IF recover[2] = "key"
        THEN [returned |-> TRUE, err |-> "nil", signature |-> rsSignature \o <<1>>,
              tried |-> <<0, 1>>]
        ELSE [returned |-> TRUE,
              err |-> "recovered public key does not match expected public key",
              signature |-> <<>>, tried |-> <<0, 1>>]

\* the values of r and s the KMS answers with
SigValues ==
    {1, 2, 127, 128, 255, 256, 257, secp256k1HalfN - 1, secp256k1HalfN, secp256k1HalfN + 1,
     secp256k1HalfN + 2, secp256k1N - 256, secp256k1N - 2, secp256k1N - 1}

\* what recovery yields for the two candidate ids: the two candidates never
\* both yield the signer's key
RecoverOutcomes ==
    {o \in [1..2 -> {"key", "other", "error"}] : ~(o[1] = "key" /\ o[2] = "key")}

InitSigner ==
    /\ CalcIdle
    /\ DistIdle
    /\ TransportIdle
    /\ MoreIdle
    /\ kms \in [r : {1, 128, secp256k1N - 1}, s : SigValues, recover : RecoverOutcomes,
                addressOk : BOOLEAN]
    /\ signed = [returned |-> FALSE, err |-> "nil", signature |-> <<>>, tried |-> <<>>]

\* the SignerFn closure on one transaction: the address check, the KMS
\* signature, the low-s rule and the recovery id
SignerFn ==
    /\ ~signed.returned
    /\ kms.r # 0
    /\ signed' =
         IF ~kms.addressOk
         THEN [returned |-> TRUE, err |-> "address mismatch", signature |-> <<>>,
               tried |-> <<>>]
         ELSE getEthereumSignature(kms.recover, DerInteger(kms.r), LowS(DerInteger(kms.s)))
    /\ UNCHANGED kms
    /\ UNCHANGED <<calcVars, distVars, trVars, moreVars>>

NextSigner == SignerFn

SpecSigner == InitSigner /\ [][NextSigner]_vars

(***************************************************************************)
(* Claims about the KMS signer (SpecSigner)                                *)
(***************************************************************************)
\* r and s as read back from a signature r || s || v
SigR(sig) == SetBytes(SubSeq(sig, 1, SigLen))
SigS(sig) == SetBytes(SubSeq(sig, SigLen + 1, 2 * SigLen))
SigV(sig) == sig[2 * SigLen + 1]

\* C19: for every (r, s) from the KMS with 0 < s < N, the signature attached
\* has length 2 * SigLen + 1, its s is N - s when s > N/2 and s otherwise,
\* this s is at most N/2, and its r is the r of the KMS.
C19_LowS ==
    (signed.returned /\ signed.err = "nil") =>
        /\ Len(signed.signature) = 2 * SigLen + 1
        /\ SigR(signed.signature) = kms.r
        /\ SigS(signed.signature) =
              (IF 2 * kms.s > secp256k1N THEN secp256k1N - kms.s ELSE kms.s)
        /\ 2 * SigS(signed.signature) <= secp256k1N

\* C19 witness: a signature whose s was in the upper half has been attached
C19_Witness ==
    /\ signed.returned /\ signed.err = "nil"
    /\ kms.s = secp256k1N - 2
    /\ SigS(signed.signature) = 2

\* C20: the signer returns the signature with the first candidate recovery id
\* (0, then 1) that recovers its key; candidate 1 is tried whenever candidate
\* 0 does not recover the key, also when recovery with 0 fails; when neither
\* candidate recovers the key an error is returned and no signature.
C20_RecoveryId ==
    (signed.returned /\ kms.addressOk) =>
        LET matches == {v \in {0, 1} : kms.recover[v + 1] = "key"}
        IN  /\ matches # {} =>
                  /\ signed.err = "nil"
                  /\ SigV(signed.signature) \in matches
                  /\ \A v \in matches : SigV(signed.signature) <= v
            /\ kms.recover[1] # "key" => signed.tried = <<0, 1>>
            /\ matches = {} => (signed.err # "nil" /\ signed.signature = <<>>)

(***************************************************************************)
(* SpecChains: pkg/chainManager, AddChain calls running concurrently on    *)
(* one ChainManager, and GetChainForId                                     *)
(***************************************************************************)
\* the goroutines calling AddChain, one call each, and the chain ids used
MaxCallers == 3
MaxChainIds == 2

Callers == 1..MaxCallers
ManagedIds == 1..MaxChainIds

\* the sync.Map: chain id -> the *Chain stored, named by the call that
\* created it; 0 for no entry
NoChain == 0
EmptyChains == [id \in ManagedIds |-> NoChain]

\* cm.Chains.Load(id)
Load(m, id) == [value |-> m[id], exists |-> m[id] # NoChain]

\* cm.Chains.Store(id, chain)
Store(m, id, chain) == [m EXCEPT ![id] = chain]

NoGet == [chainId |-> 0, chain |-> 0, err |-> "none"]

InitChains ==
    /\ CalcIdle
    /\ DistIdle
    /\ TransportIdle
    /\ SignerIdle
    /\ CommandIdle
    /\ FlattenIdle
    /\ StepsIdle
    /\ Chains = EmptyChains
    /\ addCfg \in [Callers -> ManagedIds]
    /\ addPc = [c \in Callers |-> "start"]
    /\ addRet = [c \in Callers |-> "none"]
    /\ stored = <<>>
    /\ lastGet = NoGet

\* AddChain, the existence check: cm.Chains.Load(cfg.ChainID)
AddChainLoad(c) ==
    /\ addPc[c] = "start"
    /\ IF Load(Chains, addCfg[c]).exists
       THEN /\ addRet' = [addRet EXCEPT ![c] = "already exists"]
            /\ addPc' = [addPc EXCEPT ![c] = "returned"]
       ELSE /\ addPc' = [addPc EXCEPT ![c] = "dial"]
            /\ UNCHANGED addRet
    /\ UNCHANGED <<Chains, addCfg, stored, lastGet>>
    /\ UNCHANGED othersChains

\* AddChain, ethclient.Dial(cfg.RPCUrl)
AddChainDial(c) ==
    /\ addPc[c] = "dial"
    /\ \E ok \in BOOLEAN :
         IF ok
         THEN /\ addPc' = [addPc EXCEPT ![c] = "store"]
              /\ UNCHANGED addRet
         ELSE /\ addRet' = [addRet EXCEPT ![c] = "failed to connect to RPC URL"]
              /\ addPc' = [addPc EXCEPT ![c] = "returned"]
    /\ UNCHANGED <<Chains, addCfg, stored, lastGet>>
    /\ UNCHANGED othersChains

\* AddChain, cm.Chains.Store(cfg.ChainID, &Chain{...}) and return nil
AddChainStore(c) ==
    /\ addPc[c] = "store"
    /\ Chains' = Store(Chains, addCfg[c], c)
    /\ stored' = Append(stored, [chainId |-> addCfg[c], chain |-> Chains'[addCfg[c]]])
    /\ addRet' = [addRet EXCEPT ![c] = "nil"]
    /\ addPc' = [addPc EXCEPT ![c] = "returned"]
    /\ UNCHANGED <<addCfg, lastGet>>
    /\ UNCHANGED othersChains

\* GetChainForId(chainId)
GetChainForId(chainId) ==
    /\ LET l == Load(Chains, chainId)
       IN  lastGet' = IF ~l.exists
                      THEN [chainId |-> chainId, chain |-> 0, err |-> "ErrChainNotFound"]
                      ELSE [chainId |-> chainId, chain |-> l.value, err |-> "nil"]
    /\ UNCHANGED <<Chains, addCfg, addPc, addRet, stored>>
    /\ UNCHANGED othersChains

NextChains ==
    \/ \E c \in Callers : AddChainLoad(c)
    \/ \E c \in Callers : AddChainDial(c)
    \/ \E c \in Callers : AddChainStore(c)
    \/ \E chainId \in ManagedIds : GetChainForId(chainId)

SpecChains == InitChains /\ [][NextChains]_vars

(***************************************************************************)
(* Claims about the ChainManager (SpecChains)                              *)
(***************************************************************************)
\* the AddChain calls for a chain id that have returned nil
AddedBy(id) == {c \in Callers : addCfg[c] = id /\ addRet[c] = "nil"}

\* C21: for every interleaving of AddChain calls with the same chain id whose
\* connections all succeed, exactly one call returns nil and every other
\* call returns the "already exists" error; the Chain stored for an id is
\* never replaced; GetChainForId returns ErrChainNotFound for an id that no
\* successful AddChain registered.
C21_AddChainOnce ==
    /\ \A id \in ManagedIds :
          LET same == {c \in Callers : addCfg[c] = id}
          IN  /\ Cardinality(AddedBy(id)) <= 1
              /\ (same # {} /\ \A c \in same : addRet[c] \in {"nil", "already exists"}) =>
                    Cardinality(AddedBy(id)) = 1
    /\ \A p, q \in 1..Len(stored) : stored[p].chainId = stored[q].chainId => p = q
    /\ (lastGet.err # "none" /\ AddedBy(lastGet.chainId) = {}) =>
          lastGet.err = "ErrChainNotFound"

(***************************************************************************)
(* SpecCommand: the transport command (transportAction) and cmd/hack: the  *)
(* root calculation, the global root transport, the per-group transports   *)
(***************************************************************************)
\* groups of the calculated Distribution, and destination chains a
\* transport call can submit to before it returns
MaxCmdGroups == 3
MaxCmdChains == 2

\* a call made by the command: for the per-group transport the group's
\* position in the list, err whether it returned an error, submitted the
\* number of chains it submitted a transaction to before returning
CmdCall(call, group, err, submitted) ==
    [call |-> call, group |-> group, err |-> err, submitted |-> submitted]

\* what a transport call can have submitted when it returns: to every chain
\* on success, to any number of them on failure
Submissions(err) == IF err THEN 0..MaxCmdChains ELSE {MaxCmdChains}

\* faulty variant of AfterGlobalError: the per-group transports run anyway
AfterGlobalErrorContinue == "continue"

\* if err != nil after SignAndTransportGlobalTableRoot
AfterGlobalError == "return"

\* !c.Bool("skip-avs-tables"); cmd/hack has no such flag
RunsAvsTables(cmd, skip) == cmd = "hack" \/ ~skip

InitCommand ==
    /\ CalcIdle
    /\ DistIdle
    /\ TransportIdle
    /\ SignerIdle
    /\ ManagerIdle
    /\ FlattenIdle
    /\ StepsIdle
    /\ command \in {"transport", "hack"}
    /\ skipAvsTables \in (IF command = "transport" THEN BOOLEAN ELSE {FALSE})
    /\ cmdOpsets = <<>>
    /\ cpc = "setup"
    /\ groupPos = 0
    /\ cmdCalls = <<>>
    /\ cmdResult = "running"

\* the command returns an error (cmd/hack: Fatalf ends the process)
CmdFail ==
    /\ cmdResult' = "error"
    /\ cpc' = "done"

\* the group loop: the next group, or the end of the command
CmdGroups(list, pos) ==
    IF pos < Len(list)
    THEN /\ cpc' = "avs"
         /\ groupPos' = pos + 1
         /\ UNCHANGED cmdResult
    ELSE /\ cpc' = "done"
         /\ cmdResult' = "nil"
         /\ UNCHANGED groupPos

\* logger, chain manager, signers, transport, block number and block
CmdSetup ==
    /\ cpc = "setup"
    /\ \E err \in BOOLEAN :
         /\ cmdCalls' = Append(cmdCalls, CmdCall("setup", 0, err, 0))
         /\ IF err THEN CmdFail ELSE cpc' = "calculate" /\ UNCHANGED cmdResult
    /\ UNCHANGED <<command, skipAvsTables, cmdOpsets, groupPos>>
    /\ UNCHANGED othersCommand

\* tableCalc.CalculateStakeTableRoot(ctx, blockNumber)
CmdCalculate ==
    /\ cpc = "calculate"
    /\ \E err \in BOOLEAN, n \in 0..MaxCmdGroups :
         /\ cmdCalls' = Append(cmdCalls, CmdCall("calculate", 0, err, 0))
         /\ IF err
            THEN /\ CmdFail
                 /\ UNCHANGED cmdOpsets
            ELSE /\ cmdOpsets' = [k \in 1..n |-> k]
                 /\ cpc' = "global"
                 /\ UNCHANGED cmdResult
    /\ UNCHANGED <<command, skipAvsTables, groupPos>>
    /\ UNCHANGED othersCommand

\* stakeTransport.SignAndTransportGlobalTableRoot, and what follows up to
\* the first per-group transport
CmdGlobal ==
    /\ cpc = "global"
    /\ \E err \in BOOLEAN :
         \E submitted \in Submissions(err) :
           /\ cmdCalls' = Append(cmdCalls, CmdCall("global", 0, err, submitted))
           /\ IF err /\ AfterGlobalError = "return"
              THEN /\ CmdFail
                   /\ UNCHANGED groupPos
              ELSE IF RunsAvsTables(command, skipAvsTables)
              THEN CmdGroups(cmdOpsets, 0)
              ELSE /\ cpc' = "done"
                   /\ cmdResult' = "nil"
                   /\ UNCHANGED groupPos
    /\ UNCHANGED <<command, skipAvsTables, cmdOpsets>>
    /\ UNCHANGED othersCommand

\* one iteration of the group loop: stakeTransport.SignAndTransportAvsStakeTable
CmdAvs ==
    /\ cpc = "avs"
    /\ \E err \in BOOLEAN :
         \E submitted \in Submissions(err) :
           /\ cmdCalls' = Append(cmdCalls, CmdCall("avs", cmdOpsets[groupPos], err, submitted))
           /\ IF err
              THEN /\ CmdFail
                   /\ UNCHANGED groupPos
              ELSE CmdGroups(cmdOpsets, groupPos)
    /\ UNCHANGED <<command, skipAvsTables, cmdOpsets>>
    /\ UNCHANGED othersCommand

NextCommand == CmdSetup \/ CmdCalculate \/ CmdGlobal \/ CmdAvs

SpecCommand == InitCommand /\ [][NextCommand]_vars

(***************************************************************************)
(* Claims about the transport command (SpecCommand)                        *)
(***************************************************************************)
\* the positions of the command's calls of one kind
CmdCallsOf(call) == {p \in 1..Len(cmdCalls) : cmdCalls[p].call = call}

\* C23: no per-group update is submitted for any group on any chain until
\* SignAndTransportGlobalTableRoot has returned success; if it returns an
\* error no per-group transport is attempted; the first per-group failure
\* stops the remaining groups; with skip-avs-tables set no per-group
\* transport is attempted at all.
C23_GlobalBeforeGroups ==
    /\ \A p \in CmdCallsOf("avs") :
          \E q \in CmdCallsOf("global") : q < p /\ ~cmdCalls[q].err
    /\ (\E q \in CmdCallsOf("global") : cmdCalls[q].err) => CmdCallsOf("avs") = {}
    /\ \A p \in CmdCallsOf("avs") :
          cmdCalls[p].err => (p = Len(cmdCalls) /\ cpc = "done" /\ cmdResult = "error")
    /\ skipAvsTables => CmdCallsOf("avs") = {}

\* C23 witness: after the global root went through, the second group's
\* transport failed with a third group left
C23_Witness ==
    /\ \E q \in CmdCallsOf("global") : ~cmdCalls[q].err
    /\ Len(cmdOpsets) = 3 /\ groupPos = 2
    /\ cmdCalls[Len(cmdCalls)] = CmdCall("avs", 2, TRUE, 1)
    /\ cpc = "done"

(***************************************************************************)
(* SpecFlatten: flattenHashes on the sibling hashes of a proof             *)
(***************************************************************************)
\* sibling hashes per proof, and the byte values used
MaxHashes == 3
MaxByte == 1

\* the length of a hash in bytes (32, scaled)
HashLen == 2

\* the hashes a proof can hold, and the proofs
HashValues == [1..HashLen -> 0..MaxByte]
HashLists == UNION {[1..n -> HashValues] : n \in 0..MaxHashes}

\* faulty variant of flattenHashes: every hash is put in front of the buffer
RECURSIVE flattenHashesPrepending(_)
flattenHashesPrepending(hashes) ==
    IF hashes = <<>> THEN <<>>
    ELSE flattenHashesPrepending(Tail(hashes)) \o Head(hashes)

\* flattenHashes: result = append(result, hashes[i]...) for i = 0..len-1
RECURSIVE flattenHashes(_)
flattenHashes(hashes) ==
    IF hashes = <<>> THEN <<>>
    ELSE Head(hashes) \o flattenHashes(Tail(hashes))

InitFlatten ==
    /\ CalcIdle
    /\ DistIdle
    /\ TransportIdle
    /\ SignerIdle
    /\ ManagerIdle
    /\ CommandIdle
    /\ StepsIdle
    /\ proofHashes \in HashLists
    /\ flattened = [returned |-> FALSE, bytes |-> <<>>]

\* generateOperatorSetProof: proofBytes := flattenHashes(proof.Hashes)
FlattenProof ==
    /\ ~flattened.returned
    /\ flattened' = [returned |-> TRUE, bytes |-> flattenHashes(proofHashes)]
    /\ UNCHANGED proofHashes
    /\ UNCHANGED othersFlatten

NextFlatten == FlattenProof

SpecFlatten == InitFlatten /\ [][NextFlatten]_vars

(***************************************************************************)
(* Claims about flattenHashes (SpecFlatten)                                *)
(***************************************************************************)
\* a buffer cut every n bytes
SplitEvery(buf, n) == [k \in 1..(Len(buf) \div n) |-> SubSeq(buf, (k - 1) * n + 1, k * n)]

\* C28: flattenHashes concatenates the hashes in proof order without
\* reordering, dropping or padding: cutting the flattened buffer every
\* HashLen bytes gives back the list, and the empty list gives an empty
\* buffer.
C28_FlattenSplits ==
    flattened.returned =>
        /\ Len(flattened.bytes) = HashLen * Len(proofHashes)
        /\ SplitEvery(flattened.bytes, HashLen) = proofHashes
        /\ proofHashes = <<>> => flattened.bytes = <<>>

\* C28 witness: a proof of three hashes, not all equal, has been flattened
C28_Witness ==
    /\ flattened.returned
    /\ Len(proofHashes) = 3
    /\ proofHashes[1] # proofHashes[2]
    /\ proofHashes[2] # proofHashes[3]

(***************************************************************************)
(* SpecSteps: pkg/transport call by call: one SignAndTransportGlobalTable- *)
(* Root or SignAndTransportAvsStakeTable call with the values it passes on *)
(* and the context every call is given                                     *)
(***************************************************************************)
\* supported chains per call
MaxStChains == 2

\* 2^32 and 2^64 (scaled)
Uint32Mod == 4
Uint64Mod == 16

\* FallbackGasTipCap, in gwei
FallbackGasTipCap == 15

\* faulty variant of Uint32: values out of range become the largest uint32
Uint32Saturating(x) == IF x >= Uint32Mod THEN Uint32Mod - 1 ELSE x

\* the Go conversion uint32(x) of a uint64
Uint32(x) == x % Uint32Mod

\* addGasBuffer: 6 * gasLimit / 5 in uint64 arithmetic
addGasBuffer(gasLimit) == ((6 * gasLimit) % Uint64Mod) \div 5

\* overestimatedBasefee (big.Int): baseFee * 3 / 2
OverestimatedBasefee(baseFee) == (baseFee * 3) \div 2

\* gasFeeCap (big.Int): overestimatedBasefee + gasTipCap
GasFeeCap(baseFee, gasTipCap) == OverestimatedBasefee(baseFee) + gasTipCap

\* faulty variant of TipCapOrFallback: no tip after a failed query
TipCapOrZero(ok, suggested) == IF ok THEN suggested ELSE 0

\* gasTipCap after SuggestGasTipCap
TipCapOrFallback(ok, suggested) == IF ok THEN suggested ELSE FallbackGasTipCap

StChainLists ==
    UNION {{l \in [1..n -> 1..MaxStChains] : \A p, q \in 1..n : l[p] = l[q] => p = q} :
             n \in 0..MaxStChains}
\* the caller's arguments
ReferenceTimestamps == {1, 2}
ReferenceBlockHeights == {1, Uint32Mod, Uint64Mod - 1}

\* what the destination chain answers: the recorded timestamp, the account's
\* nonce, the suggested tip, the base fee of the latest header (gwei), the
\* gas estimate
RecordedTimestamps == {0, 1}
Nonces == {0, 1}
TipCaps == {1, 2}
BaseFees == {1, 3}
Estimates == {1, 2, 3, Uint64Mod - 1}

\* the Distribution and tree handed to SignAndTransportAvsStakeTable: groups
\* with indices 0..Uint32Mod+1, each with a payload
StGroups == [k \in 1..(Uint32Mod + 2) |-> OperatorSet(k, "0xA1")]
StTableData(k) == <<k>>
RECURSIVE WithTableData(_, _)
WithTableData(dst, k) ==
    IF k = 0 THEN dst
    ELSE SetTableData(WithTableData(dst, k - 1), StGroups[k], StTableData(k)).dist
StDistribution == WithTableData(NewDistributionWithOperatorSets(StGroups), Len(StGroups))
StTree == NewTree([k \in 1..Len(StGroups) |-> EncodeOperatorTableLeaf(StTableData(k))]).tree

\* the groups a call is made for: the second, the last two, and one that is
\* not in the Distribution
StOperatorSets ==
    {StGroups[2], StGroups[Uint32Mod + 1], StGroups[Uint32Mod + 2],
     OperatorSet(Uint32Mod + 3, "0xA1")}

\* the root handed to the call
StRoot(op) == IF op = "global" THEN SomeRoot ELSE Root(StTree)

\* GetGlobalTableUpdateMessageHash of a chain's updater
GlobalTableUpdateMessageHash(chain, r, timestamp, height) ==
    [chain |-> chain, root |-> r, referenceTimestamp |-> timestamp,
     referenceBlockHeight |-> height]
NoMessageHash == GlobalTableUpdateMessageHash(0, ZeroHash, 0, 0)

\* faulty variant of generateMessageHashSignature: something else is signed
generateMessageHashSignatureOfNothing(messageHash) == [signer |-> "bls", over |-> NoMessageHash]

\* generateMessageHashSignature: blsSigner.SignBytes(messageHash)
generateMessageHashSignature(messageHash) == [signer |-> "bls", over |-> messageHash]
NoSignature == [signer |-> "none", over |-> NoMessageHash]

\* IBN254CertificateVerifierTypesBN254Certificate
Certificate(messageHash, timestamp, signature, apk) ==
    [MessageHash |-> messageHash, ReferenceTimestamp |-> timestamp, Signature |-> signature,
     Apk |-> apk]
NoCertificate == Certificate(NoMessageHash, 0, NoSignature, "nil")

\* faulty variant of CertificateTimestamp: the caller's timestamp
CertificateTimestampOfCaller(previously, timestamp) == timestamp

\* the ReferenceTimestamp of the certificate
CertificateTimestamp(previously, timestamp) == previously

\* the arguments packed into a transaction's calldata
Calldata(method, cert, r, timestamp, height, index, proof, tableInfo) ==
    [method |-> method, cert |-> cert, root |-> r, referenceTimestamp |-> timestamp,
     referenceBlockHeight |-> height, operatorSetIndex |-> index, proof |-> proof,
     tableInfo |-> tableInfo]
NoCalldata == Calldata("none", NoCertificate, ZeroHash, 0, 0, 0, <<>>, <<>>)

\* ConfirmGlobalTableRoot(txOpts, cert, root, referenceTimestamp, uint32(referenceBlockHeight))
ConfirmGlobalTableRootData(cert, r, timestamp, height) ==
    Calldata("ConfirmGlobalTableRoot", cert, r, timestamp, Uint32(height), 0, <<>>, <<>>)

\* UpdateOperatorTable(txOpts, referenceTimestamp, root, uint32(opsetIndex), proof, tableInfo)
UpdateOperatorTableData(timestamp, r, index, proof, tableInfo) ==
    Calldata("UpdateOperatorTable", NoCertificate, r, timestamp, 0, Uint32(index), proof,
             tableInfo)

\* a transaction: tx.ChainId(), tx.Nonce(), tx.To(), tx.Data() and its fees
Transaction(chain, nonce, to, data, gasTipCap, gasFeeCap, gasLimit) ==
    [chainId |-> chain, nonce |-> nonce, to |-> to, data |-> data, gasTipCap |-> gasTipCap,
     gasFeeCap |-> gasFeeCap, gasLimit |-> gasLimit]
NoTransaction == Transaction(0, 0, 0, NoCalldata, 0, 0, 0)

\* faulty variant of BroadcastNonce: the account's next nonce
BroadcastNonceFresh(unsent) == unsent.nonce + 1

\* opts.Nonce = new(big.Int).SetUint64(tx.Nonce())
BroadcastNonce(unsent) == unsent.nonce

\* addresses[i]: the updater of a chain
UpdaterAddress(chain) == chain

\* the locals of one loop iteration
NoLocals ==
    [messageHash |-> NoMessageHash, sigG1 |-> NoSignature, previouslyReferencedTimestamp |-> 0,
     unsent |-> NoTransaction, tipOk |-> TRUE, gasTipCap |-> 0, baseFee |-> 0, gasFeeCap |-> 0,
     gasLimit |-> 0, broadcast |-> NoTransaction]

\* the calls of one loop iteration, in code order
IterationSteps(op) == PrepareSteps(op) \o SendSteps \o <<"wait">>

\* the call after a call of the loop iteration
StepAfter(op, step) ==
    LET steps == IterationSteps(op)
        k == CHOOSE j \in 1..Len(steps) : steps[j] = step
    IN  steps[k + 1]

\* the context a call is given: the caller's ctx, context.Background() (also
\* a bind.CallOpts without Context), or none for a call that takes no context
StepContext(step) ==
    IF step \in {"tipcap", "header", "estimate", "transactopts", "send", "wait"}
    THEN "caller"
    ELSE IF step \in {"chains", "hash", "timestamp", "txopts", "build"}
    THEN "background"
    ELSE "none"

\* the calls that wait for a node or a signer
BlockingSteps ==
    {"chains", "hash", "timestamp", "txopts", "build", "tipcap", "header", "estimate", "send",
     "wait"}

\* a call made by the transport, the context it was given, whether the
\* caller's context was already cancelled, and whether it succeeded
StCall(chain, step, context, afterCancel, ok) ==
    [chain |-> chain, step |-> step, context |-> context, afterCancel |-> afterCancel,
     ok |-> ok]

\* the chain of the current loop iteration, 0 before the loop
StChain == IF stPos = 0 THEN 0 ELSE stChainIds[stPos]

\* whether a call can succeed: a blocking call under a cancelled context fails
StOutcomes(step) ==
    IF StepContext(step) = "caller" /\ ctxDone /\ step \in BlockingSteps
    THEN {FALSE} ELSE BOOLEAN

StLogged(step, ok) ==
    stLog' = Append(stLog, StCall(StChain, step, StepContext(step), ctxDone, ok))

StReturn(err) ==
    /\ stResult' = ReturnedTr(err)
    /\ spc' = "returned"

\* if err != nil { return ... } for a call of the loop iteration
StFailed(step) ==
    /\ StReturn(StepErr(stOp, step, StChain))
    /\ UNCHANGED <<stPos, cur>>

\* the locals after a call of the loop iteration succeeded, and on to the next call
StContinue(step, locals) ==
    /\ cur' = locals
    /\ spc' = StepAfter(stOp, step)
    /\ UNCHANGED <<stPos, stResult>>

\* generateOperatorSetProof, as called before the chain loop
StProof == generateOperatorSetProof(StTree, StDistribution, stOperatorSet)

InitSteps ==
    /\ CalcIdle
    /\ DistIdle
    /\ TransportIdle
    /\ SignerIdle
    /\ ManagerIdle
    /\ CommandIdle
    /\ FlattenIdle
    /\ stOp \in {"global", "avs"}
    /\ referenceTimestamp \in ReferenceTimestamps
    /\ referenceBlockHeight \in (IF stOp = "global" THEN ReferenceBlockHeights ELSE {1})
    /\ stOperatorSet \in (IF stOp = "global" THEN {ZeroOperatorSet} ELSE StOperatorSets)
    /\ stChainIds \in StChainLists
    /\ ctxDone = FALSE
    /\ spc = (IF stOp = "global" THEN "pubkey" ELSE "precheck")
    /\ stPos = 0
    /\ apkG2 = "nil"
    /\ cur = NoLocals
    /\ stLog = <<>>
    /\ stResult = NotReturnedTr

\* the caller cancels ctx
StCancel ==
    /\ spc \notin {"idle", "returned"}
    /\ ~ctxDone
    /\ ctxDone' = TRUE
    /\ UNCHANGED <<stOp, referenceTimestamp, referenceBlockHeight, stOperatorSet, stChainIds,
                   spc, stPos, apkG2, cur, stLog, stResult>>
    /\ UNCHANGED othersSteps

\* t.getApkFromPrivateKey()
StPubkey ==
    /\ spc = "pubkey"
    /\ \E ok \in StOutcomes("pubkey") :
         /\ StLogged("pubkey", ok)
         /\ IF ok
            THEN /\ apkG2' = "apk"
                 /\ spc' = "chains"
                 /\ UNCHANGED stResult
            ELSE /\ StReturn(TrErr("failed to get APK from private key", 0))
                 /\ UNCHANGED apkG2
    /\ UNCHANGED <<stOp, referenceTimestamp, referenceBlockHeight, stOperatorSet, stChainIds,
                   ctxDone, stPos, cur>>
    /\ UNCHANGED othersSteps

\* SignAndTransportAvsStakeTable: generateOperatorSetProof and dist.GetTableData
StPrecheck ==
    /\ spc = "precheck"
    /\ LET pre == AvsPrecheck(StTree, StDistribution, stOperatorSet)
       IN  /\ StLogged("precheck", pre = NoTrErr)
           /\ IF pre = NoTrErr
              THEN /\ spc' = "chains"
                   /\ UNCHANGED stResult
              ELSE StReturn(pre)
    /\ UNCHANGED <<stOp, referenceTimestamp, referenceBlockHeight, stOperatorSet, stChainIds,
                   ctxDone, stPos, apkG2, cur>>
    /\ UNCHANGED othersSteps

\* crossChainRegistryCaller.GetSupportedChains(&bind.CallOpts{}), and the
\* start of the chain loop
StChains ==
    /\ spc = "chains"
    /\ \E ok \in StOutcomes("chains") :
         /\ StLogged("chains", ok)
         /\ IF ~ok
            THEN /\ StReturn(TrErr("failed to get supported chains", 0))
                 /\ UNCHANGED stPos
            ELSE IF Len(stChainIds) = 0
            THEN /\ StReturn(IF stOp = "global"
                             THEN TrErr("no supported chains found in cross-chain registry", 0)
                             ELSE NoTrErr)
                 /\ UNCHANGED stPos
            ELSE /\ stPos' = 1
                 /\ spc' = IterationSteps(stOp)[1]
                 /\ UNCHANGED stResult
    /\ UNCHANGED <<stOp, referenceTimestamp, referenceBlockHeight, stOperatorSet, stChainIds,
                   ctxDone, apkG2, cur>>
    /\ UNCHANGED othersSteps

\* a call of the loop iteration that leaves no value behind
StPlain(step) ==
    /\ spc = step
    /\ \E ok \in StOutcomes(step) :
         /\ StLogged(step, ok)
         /\ IF ok THEN StContinue(step, cur) ELSE StFailed(step)
    /\ UNCHANGED <<stOp, referenceTimestamp, referenceBlockHeight, stOperatorSet, stChainIds,
                   ctxDone, apkG2>>
    /\ UNCHANGED othersSteps

\* a call of the loop iteration that sets locals: one of the records of
\* values on success
StAssign(step, values) ==
    /\ spc = step
    /\ \E ok \in StOutcomes(step) :
         /\ StLogged(step, ok)
         /\ IF ok
            THEN \E locals \in values : StContinue(step, locals)
            ELSE StFailed(step)
    /\ UNCHANGED <<stOp, referenceTimestamp, referenceBlockHeight, stOperatorSet, stChainIds,
                   ctxDone, apkG2>>
    /\ UNCHANGED othersSteps

\* t.chainManager.GetChainForId(chainId.Uint64())
StLookup == StPlain("lookup")

\* getOperatorTableUpdaterForChainClient(addr, chain.RPCClient)
StBind == StPlain("bind")

\* updaterTransactor.GetGlobalTableUpdateMessageHash(&bind.CallOpts{}, root,
\* referenceTimestamp, uint32(referenceBlockHeight))
StHash ==
    StAssign("hash",
             {[cur EXCEPT !.messageHash =
                  GlobalTableUpdateMessageHash(StChain, StRoot(stOp), referenceTimestamp,
                                               Uint32(referenceBlockHeight))]})

\* t.generateMessageHashSignature(messageHash)
StSign == StAssign("sign", {[cur EXCEPT !.sigG1 = generateMessageHashSignature(cur.messageHash)]})

\* updaterTransactor.GetGeneratorReferenceTimestamp(&bind.CallOpts{})
StTimestamp ==
    StAssign("timestamp",
             {[cur EXCEPT !.previouslyReferencedTimestamp = ts] : ts \in RecordedTimestamps})

\* t.txSigner.GetNoSendTransactOpts(context.Background(), chainId)
StTxOpts == StPlain("txopts")

\* the calldata of the transaction built for the current chain
StCalldata ==
    IF stOp = "global"
    THEN ConfirmGlobalTableRootData(
             Certificate(cur.messageHash,
                         CertificateTimestamp(cur.previouslyReferencedTimestamp,
                                              referenceTimestamp),
                         cur.sigG1, apkG2),
             StRoot(stOp), referenceTimestamp, referenceBlockHeight)
    ELSE UpdateOperatorTableData(referenceTimestamp, StRoot(stOp), StProof.index, StProof.proof,
                                 GetTableData(StDistribution, stOperatorSet).data)

\* updaterTransactor.ConfirmGlobalTableRoot / UpdateOperatorTable with
\* NoSend options: the transaction is built and signed, not sent
StBuild ==
    StAssign("build",
             {[cur EXCEPT !.unsent = Transaction(StChain, nonce, UpdaterAddress(StChain),
                                                 StCalldata, 0, 0, 0)] : nonce \in Nonces})

\* rpcClient.SuggestGasTipCap(ctx): on an error FallbackGasTipCap
StTipCap ==
    /\ spc = "tipcap"
    /\ \E ok \in StOutcomes("tipcap") :
         /\ StLogged("tipcap", ok)
         /\ \E suggested \in (IF ok THEN TipCaps ELSE {0}) :
              StContinue("tipcap", [cur EXCEPT !.tipOk = ok,
                                               !.gasTipCap = TipCapOrFallback(ok, suggested)])
    /\ UNCHANGED <<stOp, referenceTimestamp, referenceBlockHeight, stOperatorSet, stChainIds,
                   ctxDone, apkG2>>
    /\ UNCHANGED othersSteps

\* rpcClient.HeaderByNumber(ctx, nil), and gasFeeCap
StHeader ==
    StAssign("header",
             {[cur EXCEPT !.baseFee = baseFee, !.gasFeeCap = GasFeeCap(baseFee, cur.gasTipCap)] :
                baseFee \in BaseFees})

\* rpcClient.EstimateGas(ctx, ...)
StEstimate == StAssign("estimate", {[cur EXCEPT !.gasLimit = g] : g \in Estimates})

\* t.txSigner.GetTransactOpts(ctx, tx.ChainId())
StTransactOpts == StPlain("transactopts")

\* opts.Nonce, opts.GasTipCap, opts.GasFeeCap, opts.GasLimit, and
\* contract.RawTransact(opts, tx.Data())
StSend ==
    StAssign("send",
             {[cur EXCEPT !.broadcast =
                              Transaction(cur.unsent.chainId, BroadcastNonce(cur.unsent),
                                          cur.unsent.to, cur.unsent.data, cur.gasTipCap,
                                          cur.gasFeeCap, addGasBuffer(cur.gasLimit))]})

\* ensureTransactionEvaled, and on to the next chain or the return
StWait ==
    /\ spc = "wait"
    /\ \E ok \in StOutcomes("wait") :
         \E status \in (IF ok THEN {0, 1} ELSE {0}) :
           /\ StLogged("wait", ok /\ ReceiptOk(status))
           /\ IF ~(ok /\ ReceiptOk(status))
              THEN StFailed("wait")
              ELSE IF stPos < Len(stChainIds)
              THEN /\ stPos' = stPos + 1
                   /\ spc' = IterationSteps(stOp)[1]
                   /\ cur' = NoLocals
                   /\ UNCHANGED stResult
              ELSE /\ StReturn(NoTrErr)
                   /\ UNCHANGED <<stPos, cur>>
    /\ UNCHANGED <<stOp, referenceTimestamp, referenceBlockHeight, stOperatorSet, stChainIds,
                   ctxDone, apkG2>>
    /\ UNCHANGED othersSteps

NextSteps ==
    \/ StCancel
    \/ StPubkey
    \/ StPrecheck
    \/ StChains
    \/ StLookup
    \/ StBind
    \/ StHash
    \/ StSign
    \/ StTimestamp
    \/ StTxOpts
    \/ StBuild
    \/ StTipCap
    \/ StHeader
    \/ StEstimate
    \/ StTransactOpts
    \/ StSend
    \/ StWait

SpecSteps == InitSteps /\ [][NextSteps]_vars

(***************************************************************************)
(* Claims about the transport call by call (SpecSteps)                     *)
(***************************************************************************)
\* the positions in the log of the calls of one kind for one chain
StCallsOf(chain, step) ==
    {p \in 1..Len(stLog) : stLog[p].chain = chain /\ stLog[p].step = step}

\* the calls made after the caller's context was cancelled
AfterCancel == {p \in 1..Len(stLog) : stLog[p].afterCancel}

\* C22: the caller's context reaches every blocking call: once it is
\* cancelled no blocking call proceeds under an uncancelled context, the
\* call returns an error, and no further chain is processed.
C22_CancellationReachesCalls ==
    /\ \A p \in AfterCancel :
          stLog[p].step \in BlockingSteps => (stLog[p].context = "caller" /\ ~stLog[p].ok)
    /\ (stResult.returned /\ ctxDone) => stResult.err # NoTrErr
    /\ \A p, q \in AfterCancel :
          (stLog[p].chain # 0 /\ stLog[q].chain # 0) => stLog[p].chain = stLog[q].chain

\* the call at position p of the log is a successful call of this kind for
\* this chain
StOkAt(p, chain, step) ==
    /\ p >= 1
    /\ stLog[p].step = step
    /\ stLog[p].chain = chain
    /\ stLog[p].ok

\* the positions of the calls of one kind, for any chain
StCallsOfStep(step) == {p \in 1..Len(stLog) : stLog[p].step = step}

\* the successful calls of one kind for one chain
StSucceeded(chain, step) == {p \in StCallsOf(chain, step) : stLog[p].ok}

\* C24: per chain the transaction is built unsent, then estimated, then
\* re-signed and broadcast, then awaited: the no-send build broadcasts
\* nothing; there is one broadcast per chain, only after the header fetch and
\* the gas estimation both succeeded; the broadcast transaction has the
\* nonce, destination and calldata of the unsent one; when the header fetch
\* or the estimation fails nothing is broadcast for that chain.
C24_BuildEstimateBroadcastWait ==
    /\ cur.broadcast # NoTransaction =>
          /\ StSucceeded(StChain, "send") # {}
          /\ cur.unsent # NoTransaction
          /\ cur.broadcast.nonce = cur.unsent.nonce
          /\ cur.broadcast.to = cur.unsent.to
          /\ cur.broadcast.data = cur.unsent.data
    /\ \A p, q \in StCallsOfStep("send") : stLog[p].chain = stLog[q].chain => p = q
    /\ \A p \in StCallsOfStep("send") :
          /\ StOkAt(p - 5, stLog[p].chain, "build")
          /\ StOkAt(p - 3, stLog[p].chain, "header")
          /\ StOkAt(p - 2, stLog[p].chain, "estimate")
    /\ \A p \in StCallsOfStep("wait") : StOkAt(p - 1, stLog[p].chain, "send")
    /\ \A p \in StCallsOfStep("header") \cup StCallsOfStep("estimate") :
          ~stLog[p].ok => p = Len(stLog)

\* C24 witness: the second chain's transaction, built with nonce 1, has been
\* broadcast
C24_Witness ==
    /\ stPos = 2
    /\ cur.unsent.nonce = 1
    /\ cur.broadcast # NoTransaction
    /\ StSucceeded(StChain, "send") # {}

\* C25: a failed SuggestGasTipCap never fails the transaction: the tip is
\* then FallbackGasTipCap, and the header fetch, the estimation and the
\* broadcast follow as after a successful query.
C25_TipCapFallback ==
    /\ \A p \in 1..Len(stLog) :
          stLog[p].step = "tipcap" =>
              /\ p = Len(stLog) => (spc = "header" /\ ~stResult.returned)
              /\ p < Len(stLog) =>
                    (stLog[p + 1].step = "header" /\ stLog[p + 1].chain = stLog[p].chain)
    /\ (StCallsOf(StChain, "tipcap") # {} /\ ~cur.tipOk) =>
          /\ cur.gasTipCap = FallbackGasTipCap
          /\ StSucceeded(StChain, "header") # {} =>
                cur.gasFeeCap = ((3 * cur.baseFee) \div 2) + FallbackGasTipCap
          /\ cur.broadcast # NoTransaction =>
                /\ cur.broadcast.gasTipCap = FallbackGasTipCap
                /\ cur.broadcast.gasFeeCap = cur.gasFeeCap
    /\ (StCallsOf(StChain, "tipcap") # {} /\ cur.tipOk) => cur.gasTipCap \in TipCaps

\* C25 witness: a transaction has been broadcast after SuggestGasTipCap
\* failed under a live context
C25_Witness ==
    /\ ~ctxDone
    /\ \E p \in StCallsOf(StChain, "tipcap") : ~stLog[p].ok
    /\ cur.broadcast # NoTransaction
    /\ cur.broadcast.gasTipCap = FallbackGasTipCap

\* C26: the broadcast transaction's feeCap is floor(3 * baseFee / 2) + tipCap
\* for the latest header's baseFee, and its gasLimit is floor(6 * estimate / 5)
\* for the node's estimate, which is at least the estimate for every uint64
\* estimate.
C26_FeeParameters ==
    cur.broadcast # NoTransaction =>
        /\ cur.broadcast.gasTipCap = cur.gasTipCap
        /\ cur.broadcast.gasFeeCap = ((3 * cur.baseFee) \div 2) + cur.gasTipCap
        /\ cur.broadcast.gasLimit = (6 * cur.gasLimit) \div 5
        /\ cur.broadcast.gasLimit >= cur.gasLimit

\* C27: the certificate's ReferenceTimestamp is the timestamp the destination
\* chain has recorded, read in the same loop iteration; the call arguments
\* and the hash query carry the caller's referenceTimestamp and root; when
\* the read fails the chain is given up before a transaction is built.
C27_CertificateTimestamp ==
    stOp = "global" =>
        /\ cur.messageHash # NoMessageHash =>
              /\ cur.messageHash.referenceTimestamp = referenceTimestamp
              /\ cur.messageHash.root = StRoot(stOp)
        /\ cur.unsent # NoTransaction =>
              /\ StSucceeded(StChain, "timestamp") # {}
              /\ cur.unsent.data.cert.ReferenceTimestamp = cur.previouslyReferencedTimestamp
              /\ cur.unsent.data.referenceTimestamp = referenceTimestamp
              /\ cur.unsent.data.root = StRoot(stOp)
        /\ \A p \in StCallsOfStep("build") : StOkAt(p - 2, stLog[p].chain, "timestamp")
        /\ \A p \in StCallsOfStep("timestamp") :
              ~stLog[p].ok => (p = Len(stLog) /\ stResult.returned /\ stResult.err # NoTrErr)

\* C27 witness: the second chain's transaction has been built with a
\* recorded timestamp that differs from the caller's
C27_Witness ==
    /\ stOp = "global"
    /\ stPos = 2
    /\ cur.unsent # NoTransaction
    /\ cur.unsent.data.cert.ReferenceTimestamp = 0
    /\ cur.unsent.data.referenceTimestamp = 2

\* C29: the certificate submitted to a chain carries the message hash
\* obtained from that chain and a signature over exactly that hash, both
\* obtained in that chain's loop iteration; the aggregate public key is
\* computed once per call, before the supported-chains query, and reused.
C29_HashAndSignaturePerChain ==
    stOp = "global" =>
        /\ cur.unsent # NoTransaction =>
              LET cert == cur.unsent.data.cert
              IN  /\ cert.MessageHash = cur.messageHash
                  /\ cert.MessageHash.chain = StChain
                  /\ cert.Signature.signer = "bls"
                  /\ cert.Signature.over = cert.MessageHash
                  /\ cert.Apk = "apk"
                  /\ cert.Apk = apkG2
        /\ cur.broadcast # NoTransaction => cur.broadcast.data.cert = cur.unsent.data.cert
        /\ \A p \in StCallsOfStep("build") :
              /\ StOkAt(p - 4, stLog[p].chain, "hash")
              /\ StOkAt(p - 3, stLog[p].chain, "sign")
        /\ StCallsOfStep("pubkey") \subseteq {1}
        /\ \A p \in StCallsOfStep("chains") : StOkAt(p - 1, 0, "pubkey")

\* C29 witness: the second chain's certificate has been built, with the hash
\* of the second chain
C29_Witness ==
    /\ stOp = "global"
    /\ stPos = 2
    /\ cur.unsent # NoTransaction
    /\ cur.unsent.data.cert.MessageHash.chain = stChainIds[2]
    /\ cur.unsent.data.cert.Signature.over.chain = stChainIds[2]

\* C30: the leaf index of the per-group update and the block height of the
\* root confirmation are the 64-bit values narrowed to 32 bits: the index
\* (the Distribution index the proof was generated for) and the height are
\* submitted unchanged below 2^32 and modulo 2^32 above; the narrowing
\* raises no error.
C30_NarrowedTo32Bits ==
    /\ (stOp = "avs" /\ cur.unsent # NoTransaction) =>
          LET index == GetTableIndex(StDistribution, stOperatorSet).index
              data == cur.unsent.data
          IN  /\ StProof.index = index
              /\ data.proof = GenerateProofWithIndex(StTree, index)
              /\ data.operatorSetIndex = index % Uint32Mod
              /\ index < Uint32Mod => data.operatorSetIndex = index
    /\ (stOp = "global" /\ cur.unsent # NoTransaction) =>
          LET data == cur.unsent.data
          IN  /\ data.referenceBlockHeight = referenceBlockHeight % Uint32Mod
              /\ data.cert.MessageHash.referenceBlockHeight = data.referenceBlockHeight
              /\ referenceBlockHeight < Uint32Mod =>
                    data.referenceBlockHeight = referenceBlockHeight
    /\ (stResult.returned /\ stResult.err # NoTrErr) =>
          LET lastCall32 == stLog[Len(stLog)]
          IN  \/ ~lastCall32.ok
              \/ lastCall32.step = "chains" /\ stChainIds = <<>>

\* C30 witness: an update for the group with index 2^32 + 1 has been
\* broadcast with leaf index 1
C30_Witness ==
    /\ stOp = "avs"
    /\ GetTableIndex(StDistribution, stOperatorSet).index = Uint32Mod + 1
    /\ cur.broadcast # NoTransaction
    /\ cur.broadcast.data.operatorSetIndex = 1

====
